---- MODULE Spec2Model ----
(***************************************************************************)
(* A model of the blob test engine of the hive Engine API simulator:       *)
(*   - helper/blobs.go : BlobID.FillBlob, BlobID.VerifyBlob,               *)
(*                       GenerateBlob, BlobDataGenerator                   *)
(*   - types/blobs.go  : KZGToVersionedHash, ComputeCommitmentsAndProofs   *)
(*   - suites/blobs/steps.go : ParallelSteps, SendBlobTransactions,        *)
(*                       NewPayloads checkpoints, GetBlobDataInPayload     *)
(*                                                                         *)
(* The module holds one specification per part of the program, over one     *)
(* set of variables:                                                       *)
(*   SpecBlob    the deterministic blob synthesizer (pure functions)       *)
(*   SpecCommit  the commitment engine (pure functions over an opaque      *)
(*               KZG capability)                                           *)
(*   Spec        the step state machine: goroutines of a ParallelSteps     *)
(*               composite working on the shared TestBlobTxPool            *)
(*   SpecSeq     the same steps run as a TestSequence                      *)
(*   SpecCtx     concurrent callers of the crypto context                  *)
(*   SpecVerify  GetBlobDataInPayload and VerifyBlobBundle                 *)
(*   SpecList    GetBlobList and GetBlobListByIndex                        *)
(*   SpecFork    the version policy of config.ForkConfig                   *)
(*   SpecPayload the checkpoints of NewPayloads.Execute and VerifyPayload  *)
(*   SpecTx      BlobTransactionCreator.MakeTransaction                    *)
(*   SpecText    Blob.MarshalText and Blob.UnmarshalText                   *)
(*   SpecHash    the derivations of a versioned hash                       *)
(*   SpecLive    Spec under a fair scheduler                               *)
(*   SpecClients LaunchClients, SendBlobTransactions and                   *)
(*               SendModifiedLatestPayload steps of a TestSequence         *)
(* Each specification leaves the variables of the others at their idle     *)
(* value.                                                                  *)
(***************************************************************************)
EXTENDS Integers, Sequences, FiniteSets, TLC

VARIABLES
    \* ---- blob synthesizer (SpecBlob) ----
    sha,        \* the part of sha256 the run evaluates: input bytes -> digest
    blobId,     \* the BlobID FillBlob is called on
    blob,       \* the *typ.Blob argument: NilBlob or the bytes of the blob
    fillErr,    \* error returned by FillBlob (Nil: none)
    src,        \* ghost: where the content of blob comes from
    verifyId,   \* the BlobID VerifyBlob is called on
    verifyRes,  \* the (bool, error) VerifyBlob returned
    phase,      \* position of the driver
    \* ---- commitment engine (SpecCommit) ----
    kzgCommit,  \* the capability's BlobToKZGCommitment: blob -> commitment or failure
    kzgProof,   \* the capability's ComputeBlobKZGProof: blob -> proof or failure
    cOp,        \* the operation the driver called ("none": not yet)
    vhIn,       \* the commitment KZGToVersionedHash was called on
    vhOut,      \* the hash it returned
    ccpIn,      \* the Blobs ComputeCommitmentsAndProofs was called on
    ccpOut,     \* what it returned
    genIn,      \* the (startBlobId, blobCount) BlobDataGenerator was called on
    genOut,     \* what it returned
    \* ---- step state machine (Spec) ----
    steps,      \* ParallelSteps.Steps: the sub-steps of the composite
    mainPc,     \* position of ParallelSteps.Execute
    launched,   \* number of goroutines the loop has started
    wg,         \* counter of the sync.WaitGroup
    errs,       \* content of the buffered channel errs
    errsClosed, \* whether close(errs) was executed
    result,     \* the error ParallelSteps.Execute returned
    gpc,        \* position of each goroutine in its sub-step's Execute
    gloc,       \* locals of each goroutine: bTx, the BlobID read, blobTx, payload
    gout,       \* how each sub-step's Execute ended
    pool,       \* the TestBlobTxPool (without its Mutex)
    mutex,      \* TestBlobTxPool.Mutex: 0 when free, else the goroutine holding it
    node,       \* the client: the transactions it was sent, its next nonce per account
    \* ---- crypto context (SpecCtx) ----
    onceDone,   \* initCryptoCtx: the done flag of the sync.Once
    onceM,      \* initCryptoCtx: the mutex of the sync.Once, 0 or the caller holding it
    gCryptoCtx, \* the global context: "zero", "partial" (being copied) or "ctx"
    constructions, \* ghost: number of calls of gokzg4844.NewContext4096Insecure1337
    proc,       \* the process: "running" or "exited"
    cpc,        \* position of each caller
    cfn,        \* the function each caller is in
    cpanic,     \* whether each caller is panicking
    cret,       \* what the last CryptoCtx call of each caller returned
    calls,      \* number of calls each caller has made
    \* ---- payload cross-validation (SpecVerify) ----
    vPool,      \* the TestBlobTxPool GetBlobDataInPayload is called on
    vPayload,   \* payload.Transactions, decoded: type and hash of each
    vOp,        \* position of the driver: "init", "got", "verified"
    vGot,       \* what GetBlobDataInPayload returned
    vStep,      \* the NewPayloads step: ExpectedIncludedBlobCount, ExpectedBlobs
    vBundle,    \* the BlobsBundle of the client
    vErr,       \* the error VerifyBlobBundle returned
    \* ---- blob lists (SpecList) ----
    lIn,        \* the two arguments of GetBlobList or GetBlobListByIndex
    lOp,        \* the function the driver called ("init": not yet)
    lOut,       \* the BlobIDs it returned
    \* ---- fork policy (SpecFork) ----
    forkConfig, \* the ForkConfig: a pointer to the activation timestamp of each fork
    fIn,        \* the (headTimestamp, payloadAttributesTimestamp) of the call
    fOp,        \* the function the driver called ("init": not yet)
    fOut,       \* the version it returned
    \* ---- NewPayloads step (SpecPayload) ----
    npStep,     \* the step: PayloadCount, Version, ExpectedIncludedBlobCount,
                \* GetPayloadDelay
    latestPayloadBuilt, \* t.CLMock.LatestPayloadBuilt
    previousPayload, \* the local variable of NewPayloads.Execute
    built,      \* ghost: the latest payload before the step, then the payload of each cycle
    npP,        \* the loop variable p
    npPc,       \* position of NewPayloads.Execute
    npVersion,  \* the version the payload of the cycle was submitted with (0: not yet)
    npVerified, \* ghost: VerifyPayload was called on the payload of the cycle
    npErr,      \* the error VerifyPayload returned
    payloadDelay, \* t.CLMock.PayloadProductionClientDelay, in seconds
    originalGetPayloadDelay, \* the local variable of NewPayloads.Execute
    delayBefore, \* ghost: the delay of the CL mock before the step
    \* ---- transaction creator (SpecTx) ----
    txCreator,  \* the BlobTransactionCreator
    txOp,       \* position of the driver
    txOut,      \* the (typ.Transaction, error) MakeTransaction returned
    \* ---- blob text encoding (SpecText) ----
    tSrc,       \* the blob MarshalText is called on
    tText,      \* the text: what MarshalText returned, or that text damaged
    tKind,      \* ghost: how the text was made ("none", "marshalled", "damaged")
    tBlob,      \* the target *Blob of UnmarshalText: NilBlob or its bytes
    tOld,       \* ghost: the target before UnmarshalText was called
    tOp,        \* position of the driver
    tErr,       \* the error UnmarshalText returned
    \* ---- versioned hash derivations (SpecHash) ----
    hOp,        \* the operation the driver called ("init": not yet)
    hIn,        \* the VersionedHashes override: Blobs and HashVersions
    hOut,       \* what its VersionedHashes() returned
    hBundle,    \* what the bundle of the same blobs gives: VersionedHashes(0x01)
    hDer,       \* the derivations of the hash of one BlobID, side by side
    \* ---- clients of the test (SpecClients) ----
    engines,    \* t.Engines: the clients, in launch order
    testEngines, \* t.TestEngines: the test wrapper of each client
    clMock,     \* the clients the CL mock produces for (AddEngineClient)
    started,    \* number of clients StartClient has started
    lcI,        \* the loop variable i of LaunchClients.Execute
    origin,     \* ghost: the step that launched each client (0: the setup)
    bootnodes,  \* the bootnodes of the last StartClient call
    delivered   \* the TestEngineNewPayloadV3 calls SendModifiedLatestPayload made

stepVars == <<steps, mainPc, launched, wg, errs, errsClosed, result, gpc, gloc, gout,
              pool, mutex, node>>

commitVars == <<kzgCommit, kzgProof, cOp, vhIn, vhOut, ccpIn, ccpOut, genIn, genOut>>

blobVars == <<sha, blobId, blob, fillErr, src, verifyId, verifyRes, phase>>

ctxVars == <<onceDone, onceM, gCryptoCtx, constructions, proc, cpc, cfn, cpanic, cret, calls>>

verVars == <<vPool, vPayload, vOp, vGot, vStep, vBundle, vErr>>

listVars == <<lIn, lOp, lOut>>

forkVars == <<forkConfig, fIn, fOp, fOut>>

delayVars == <<payloadDelay, originalGetPayloadDelay, delayBefore>>

payVars == <<npStep, latestPayloadBuilt, previousPayload, built, npP, npPc, npVersion,
             npVerified, npErr, delayVars>>

txVars == <<txCreator, txOp, txOut>>

\* the variables of SpecList, SpecFork, SpecPayload and SpecTx
textVars == <<tSrc, tText, tKind, tBlob, tOld, tOp, tErr>>

\* the variables of the specifications added after SpecTx
hashVars == <<hOp, hIn, hOut, hBundle, hDer>>

clientVars == <<engines, testEngines, clMock, started, lcI, origin, bootnodes, delivered>>

moreVars == <<textVars, hashVars, clientVars>>

utilVars == <<listVars, forkVars, payVars, txVars, moreVars>>

\* the variables of the specifications other than SpecBlob, SpecCommit, Spec
restVars == <<ctxVars, verVars, utilVars>>

\* the variables of the specifications before SpecList
coreVars == <<blobVars, commitVars, stepVars, ctxVars, verVars, moreVars>>

\* the variables of the specifications up to SpecTx
baseVars == <<blobVars, commitVars, stepVars, ctxVars, verVars,
              listVars, forkVars, payVars, txVars>>

Nil == "nil"

-----------------------------------------------------------------------------
(* Bounds *)

\* number of field elements of a blob in the model (4096 in the program)
MaxFieldElements == 2
\* BlobIDs range over 0..MaxBlobID
MaxBlobID == 2
\* longest blob list handed to the commitment engine
MaxBlobs == 2
\* most sub-steps of a ParallelSteps
MaxSteps == 2
\* largest BlobTransactionSendCount of a SendBlobTransactions step
MaxSendCount == 2

-----------------------------------------------------------------------------
(* Program constants *)

BlobCommitmentVersionKZG == 1
FieldElementsPerBlob == MaxFieldElements
BlobLen == FieldElementsPerBlob * 32

\* gokzg4844.BlsModulus, big-endian:
\* 0x73eda753299d7d483339d80809a1d80553bda402fffe5bfeffffffff00000001
BlsModulus ==
    << 115, 237, 167,  83,  41, 157, 125,  72,
        51,  57, 216,   8,   9, 161, 216,   5,
        83, 189, 164,   2, 255, 254,  91, 254,
       255, 255, 255, 255,   0,   0,   0,   1 >>

\* a nil *typ.Blob (no blob has length 0)
NilBlob == << >>

\* typ.Blob{}: the zero value of the array type
ZeroBlob == [j \in 1..BlobLen |-> 0]

\* big-endian 8-byte encoding of a BlobID (binary.BigEndian.PutUint64)
RECURSIVE BigEndian(_, _)
BigEndian(v, n) ==
    IF n = 0 THEN << >> ELSE Append(BigEndian(v \div 256, n - 1), v % 256)

BlobIdBytes(id) == BigEndian(id, 8)

\* sha256.Sum256: an opaque deterministic function, read from the oracle
sha256(x) == sha[x]

-----------------------------------------------------------------------------
(* helper/blobs.go: FillBlob *)

\* mutant: the byte is lowered to the modulus byte, not to one below it
RECURSIVE FillClamp_NoDecrement(_, _, _)
FillClamp_NoDecrement(b, chunkIdx, i) ==
    IF i >= 32 THEN b
    ELSE LET blobByteIdx == (chunkIdx * 32) + i
             cur == b[blobByteIdx + 1]
             m   == BlsModulus[i + 1]
         IN IF cur < m THEN b
            ELSE IF m > 0
                 THEN [b EXCEPT ![blobByteIdx + 1] = m]
                 ELSE FillClamp_NoDecrement([b EXCEPT ![blobByteIdx + 1] = m], chunkIdx, i + 1)

\* mutant: a byte equal to the modulus byte ends the clamp
RECURSIVE FillClamp_EqualStops(_, _, _)
FillClamp_EqualStops(b, chunkIdx, i) ==
    IF i >= 32 THEN b
    ELSE LET blobByteIdx == (chunkIdx * 32) + i
             cur == b[blobByteIdx + 1]
             m   == BlsModulus[i + 1]
         IN IF cur <= m THEN b
            ELSE IF m > 0
                 THEN [b EXCEPT ![blobByteIdx + 1] = m - 1]
                 ELSE FillClamp_EqualStops([b EXCEPT ![blobByteIdx + 1] = m], chunkIdx, i + 1)

\* the clamp loop of FillBlob (for i := 0; i < 32; i++), from byte i on
RECURSIVE FillClamp(_, _, _)
FillClamp(b, chunkIdx, i) ==
    IF i >= 32 THEN b
    ELSE LET blobByteIdx == (chunkIdx * 32) + i
             cur == b[blobByteIdx + 1]
             m   == BlsModulus[i + 1]
         IN IF cur < m THEN b
            ELSE IF m > 0
                 THEN [b EXCEPT ![blobByteIdx + 1] = m - 1]
                 ELSE FillClamp([b EXCEPT ![blobByteIdx + 1] = m], chunkIdx, i + 1)

\* copy(blob[chunkIdx*32:(chunkIdx+1)*32], currentHashed[:])
CopyChunk(b, chunkIdx, currentHashed) ==
    [j \in 1..Len(b) |->
        IF (j - 1) >= chunkIdx * 32 /\ (j - 1) < (chunkIdx + 1) * 32
        THEN currentHashed[j - chunkIdx * 32]
        ELSE b[j]]

\* the chunk loop of FillBlob, from chunk chunkIdx on
RECURSIVE FillChunks(_, _, _)
FillChunks(b, chunkIdx, currentHashed) ==
    IF chunkIdx >= FieldElementsPerBlob THEN b
    ELSE FillChunks(FillClamp(CopyChunk(b, chunkIdx, currentHashed), chunkIdx, 0),
                    chunkIdx + 1, sha256(currentHashed))

\* FillBlob(blob): the error returned and the content of the buffer afterwards
FillBlob(id, b) ==
    IF b = NilBlob THEN [err |-> "nil blob", blob |-> NilBlob]
    ELSE IF id = 0 THEN [err |-> Nil, blob |-> b]
    ELSE [err |-> Nil, blob |-> FillChunks(b, 0, sha256(BlobIdBytes(id)))]

-----------------------------------------------------------------------------
(* helper/blobs.go: VerifyBlob *)

\* blob[chunkIdx*32:(chunkIdx+1)*32]
Chunk(b, chunkIdx) == [i \in 1..32 |-> b[chunkIdx * 32 + i]]

emptyFieldElem == [i \in 1..32 |-> 0]

\* mutant: only the first field element is compared
VerifyZero_FirstOnly(b, chunkIdx) ==
    Chunk(b, chunkIdx) = emptyFieldElem

\* the loop of the blobId == 0 branch
RECURSIVE VerifyZero(_, _)
VerifyZero(b, chunkIdx) ==
    IF chunkIdx >= FieldElementsPerBlob THEN TRUE
    ELSE IF Chunk(b, chunkIdx) # emptyFieldElem THEN FALSE
    ELSE VerifyZero(b, chunkIdx + 1)

\* the clamp loop of VerifyBlob on expectedFieldElem
RECURSIVE VerifyClamp(_, _)
VerifyClamp(expectedFieldElem, i) ==
    IF i >= 32 THEN expectedFieldElem
    ELSE LET blobByteIdx == i
             cur == expectedFieldElem[blobByteIdx + 1]
             m   == BlsModulus[i + 1]
         IN IF cur < m THEN expectedFieldElem
            ELSE IF m > 0
                 THEN [expectedFieldElem EXCEPT ![blobByteIdx + 1] = m - 1]
                 ELSE VerifyClamp([expectedFieldElem EXCEPT ![blobByteIdx + 1] = m], i + 1)

\* the chunk loop of VerifyBlob
RECURSIVE VerifyChunks(_, _, _)
VerifyChunks(b, chunkIdx, currentHashed) ==
    IF chunkIdx >= FieldElementsPerBlob THEN TRUE
    ELSE IF Chunk(b, chunkIdx) # VerifyClamp(currentHashed, 0) THEN FALSE
    ELSE VerifyChunks(b, chunkIdx + 1, sha256(currentHashed))

\* mutant: a nil blob is reported like a blob that does not match
VerifyBlob_NilIsMismatch(id, b) ==
    IF b = NilBlob THEN [ok |-> FALSE, err |-> Nil]
    ELSE IF id = 0 THEN [ok |-> VerifyZero(b, 0), err |-> Nil]
    ELSE [ok |-> VerifyChunks(b, 0, sha256(BlobIdBytes(id))), err |-> Nil]

VerifyBlob(id, b) ==
    IF b = NilBlob THEN [ok |-> FALSE, err |-> "nil blob"]
    ELSE IF id = 0 THEN [ok |-> VerifyZero(b, 0), err |-> Nil]
    ELSE [ok |-> VerifyChunks(b, 0, sha256(BlobIdBytes(id))), err |-> Nil]

-----------------------------------------------------------------------------
(* SpecBlob: FillBlob and VerifyBlob driven over bounded inputs.            *)
(* sha256 is an arbitrary deterministic function: Init draws the digests    *)
(* of the hash chain of blobId (sha256(id bytes), sha256 of that, ...) from *)
(* sample digests that take every branch of the clamp loops: a leading      *)
(* byte below, equal to and above the leading byte of the modulus, followed *)
(* by the tail of the modulus itself or by 0xff bytes.                      *)

BlobIDs == 0..MaxBlobID

SampleDigest(first, tail) ==
    [i \in 1..32 |-> IF i = 1 THEN first
                     ELSE IF tail = 0 THEN BlsModulus[i] ELSE 255]

SampleDigests ==
    { SampleDigest(114, 0), SampleDigest(115, 0), SampleDigest(115, 1), SampleDigest(255, 1) }

\* the chains a function can produce: equal digests have equal successors
Chains ==
    { ds \in [1..FieldElementsPerBlob -> SampleDigests] :
        \A i, j \in 1..(FieldElementsPerBlob - 1) :
            ds[i] = ds[j] => ds[i + 1] = ds[j + 1] }

\* the function that maps the id bytes to ds[1] and ds[k] to ds[k+1]
ChainOracle(id, ds) ==
    [x \in {BlobIdBytes(id)} \cup SampleDigests |->
        IF x = BlobIdBytes(id) THEN ds[1]
        ELSE IF \E k \in 1..(FieldElementsPerBlob - 1) : ds[k] = x
             THEN ds[(CHOOSE k \in 1..(FieldElementsPerBlob - 1) : ds[k] = x) + 1]
             ELSE ds[1]]

\* values a foreign byte of a blob may take
TamperValues == {0, 255}

NoResult == [ok |-> FALSE, err |-> "none"]

InitBlob ==
    /\ blobId \in BlobIDs
    /\ \E ds \in Chains :
          /\ blobId = 0 => ds = [k \in 1..FieldElementsPerBlob |-> SampleDigest(114, 0)]
          /\ sha = ChainOracle(blobId, ds)
    /\ blob \in {NilBlob, ZeroBlob}
    /\ fillErr = Nil
    /\ src = "new"
    /\ verifyId = 0
    /\ verifyRes = NoResult
    /\ phase = "new"

\* blobId.FillBlob(&blob)
DoFillBlob ==
    /\ phase = "new"
    /\ LET r == FillBlob(blobId, blob)
       IN /\ blob' = r.blob
          /\ fillErr' = r.err
    /\ src' = "filled"
    /\ phase' = "filled"
    /\ UNCHANGED <<sha, blobId, verifyId, verifyRes, commitVars, stepVars, restVars>>

\* the blob handed to VerifyBlob comes from a client's bundle: any byte of it
\* may differ from the synthesized blob
DoTamper ==
    /\ phase \in {"new", "filled"}
    /\ blob # NilBlob
    /\ \E j \in 1..BlobLen, v \in TamperValues :
          /\ blob[j] # v
          /\ blob' = [blob EXCEPT ![j] = v]
    /\ src' = "tampered"
    /\ phase' = "tampered"
    /\ UNCHANGED <<sha, blobId, fillErr, verifyId, verifyRes, commitVars, stepVars, restVars>>

\* id.VerifyBlob(&blob), for id the BlobID of the blob or the reserved id 0
DoVerifyBlob ==
    /\ phase \in {"new", "filled", "tampered"}
    /\ \E id \in {blobId, 0} :
          /\ verifyId' = id
          /\ verifyRes' = VerifyBlob(id, blob)
    /\ phase' = "verified"
    /\ UNCHANGED <<sha, blobId, blob, fillErr, src, commitVars, stepVars, restVars>>

NextBlob == DoFillBlob \/ DoTamper \/ DoVerifyBlob

-----------------------------------------------------------------------------
(* properties of the synthesizer *)

\* element chunkIdx of b, as a big-endian number, is below the modulus:
\* at the first byte where they differ the element's byte is the smaller
LessThanModulus(b, chunkIdx) ==
    \E i \in 1..32 :
        /\ \A k \in 1..(i - 1) : Chunk(b, chunkIdx)[k] = BlsModulus[k]
        /\ Chunk(b, chunkIdx)[i] < BlsModulus[i]

AllZero(b) == \A j \in 1..BlobLen : b[j] = 0

\* C1: for every BlobID id (0 included), VerifyBlob(id, b) returns
\* (true, nil) when b is the blob FillBlob(id) produced.
C1_RoundTrip ==
    (phase = "verified" /\ src = "filled" /\ blob # NilBlob /\ verifyId = blobId)
        => verifyRes = [ok |-> TRUE, err |-> Nil]

\* a verified round trip of a non-zero id whose first element was clamped
C1_Witness ==
    /\ phase = "verified" /\ src = "filled" /\ blob # NilBlob
    /\ verifyId = blobId /\ blobId # 0
    /\ sha256(BlobIdBytes(blobId))[1] >= BlsModulus[1]
    /\ blob[1] = BlsModulus[1] - 1
    /\ verifyRes.ok

\* C2: for every id # 0 each 32-byte element FillBlob(id) wrote, read as a
\* big-endian integer, is strictly below the BLS modulus, whatever the digests.
C2_BelowModulus ==
    (src = "filled" /\ blob # NilBlob /\ blobId # 0)
        => \A c \in 0..(FieldElementsPerBlob - 1) : LessThanModulus(blob, c)

\* a filled blob whose last element comes from a digest above the modulus
C2_Witness ==
    /\ src = "filled" /\ blob # NilBlob /\ blobId # 0
    /\ \E d \in SampleDigests :
          /\ d[1] = 255
          /\ Chunk(blob, FieldElementsPerBlob - 1) = [d EXCEPT ![1] = BlsModulus[1] - 1]

\* C3: FillBlob(0) yields the all-zero blob, VerifyBlob(0, all-zero blob) is
\* true, and VerifyBlob(0, b) is false for every b with a non-zero byte.
C3_ZeroBlob ==
    /\ (src = "filled" /\ blob # NilBlob /\ blobId = 0) => AllZero(blob)
    /\ (phase = "verified" /\ blob # NilBlob /\ verifyId = 0)
          => /\ verifyRes.err = Nil
             /\ verifyRes.ok <=> AllZero(blob)

\* a blob whose only non-zero byte is in its last element, refused for id 0
C3_Witness ==
    /\ phase = "verified" /\ blob # NilBlob /\ verifyId = 0 /\ blobId = 0
    /\ src = "tampered"
    /\ \A j \in 1..(BlobLen - 32) : blob[j] = 0
    /\ ~AllZero(blob)
    /\ ~verifyRes.ok

-----------------------------------------------------------------------------
(* types/blobs.go: the commitment engine *)

\* Go slices: nil, or a list of elements
NilList == [nil |-> TRUE, elems |-> << >>]
List(s) == [nil |-> FALSE, elems |-> s]

\* Go errors: nil, or a format with the values formatted into it
NoError == [format |-> "", args |-> << >>]
ErrorArg(e) == [kind |-> "error", val |-> 0, text |-> e]
Errorf(format, args) == [format |-> format, args |-> args]

\* a failure of the capability; what it reports is the library's own text
KzgFailure == [ok |-> FALSE, val |-> << >>, err |-> "kzg failure"]
KzgValue(v) == [ok |-> TRUE, val |-> v, err |-> ""]

\* cryptoCtx.BlobToKZGCommitment(blob) and cryptoCtx.ComputeBlobKZGProof(blob,
\* commitment): opaque, deterministic, and they may fail
BlobToKZGCommitment(b) == kzgCommit[b]
ComputeBlobKZGProof(b, commitment) ==
    IF kzgProof[b].ok
    THEN KzgValue([kzgProof[b].val EXCEPT ![1] = commitment[1]])
    ELSE kzgProof[b]

\* mutant: the version byte is put in front of the digest, which is cut to
\* 32 bytes, instead of replacing the digest's first byte
KZGToVersionedHash_Prepend(kzg) ==
    [i \in 1..32 |-> IF i = 1 THEN BlobCommitmentVersionKZG ELSE sha256(kzg)[i - 1]]

\* KZGToVersionedHash: h := sha256.Sum256(kzg[:]); h[0] = version
KZGToVersionedHash(kzg) ==
    [sha256(kzg) EXCEPT ![1] = BlobCommitmentVersionKZG]

\* KZGCommitment.ComputeVersionedHash
ComputeVersionedHash(c) == KZGToVersionedHash(c)

ZeroCommitment == [i \in 1..48 |-> 0]
ZeroProof == [i \in 1..48 |-> 0]
ZeroHash == [i \in 1..32 |-> 0]

CCPResult(commitments, versionedHashes, proofs, err) ==
    [commitments |-> commitments, versionedHashes |-> versionedHashes,
     proofs |-> proofs, err |-> err]

\* mutant: a failure returns the lists as filled so far
RECURSIVE CCPLoop_Partial(_, _, _, _, _)
CCPLoop_Partial(blobs, i, commitments, versionedHashes, proofs) ==
    IF i > Len(blobs)
    THEN CCPResult(List(commitments), List(versionedHashes), List(proofs), NoError)
    ELSE LET commitment == BlobToKZGCommitment(blobs[i])
         IN IF ~commitment.ok
            THEN CCPResult(List(commitments), List(versionedHashes), List(proofs),
                           Errorf("could not convert blob to commitment: %v",
                                  << ErrorArg(commitment.err) >>))
            ELSE LET proof == ComputeBlobKZGProof(blobs[i], commitment.val)
                 IN IF ~proof.ok
                    THEN CCPResult(List(commitments), List(versionedHashes), List(proofs),
                                   Errorf("could not compute proof for blob: %v",
                                          << ErrorArg(proof.err) >>))
                    ELSE CCPLoop_Partial(blobs, i + 1,
                            [commitments EXCEPT ![i] = commitment.val],
                            [versionedHashes EXCEPT ![i] = KZGToVersionedHash(commitment.val)],
                            [proofs EXCEPT ![i] = proof.val])

\* mutant: the results are appended in front, so the order is reversed
RECURSIVE CCPLoop_Reversed(_, _, _, _, _)
CCPLoop_Reversed(blobs, i, commitments, versionedHashes, proofs) ==
    IF i > Len(blobs)
    THEN CCPResult(List(commitments), List(versionedHashes), List(proofs), NoError)
    ELSE LET commitment == BlobToKZGCommitment(blobs[i])
         IN IF ~commitment.ok
            THEN CCPResult(NilList, NilList, NilList,
                           Errorf("could not convert blob to commitment: %v",
                                  << ErrorArg(commitment.err) >>))
            ELSE LET proof == ComputeBlobKZGProof(blobs[i], commitment.val)
                 IN IF ~proof.ok
                    THEN CCPResult(NilList, NilList, NilList,
                                   Errorf("could not compute proof for blob: %v",
                                          << ErrorArg(proof.err) >>))
                    ELSE CCPLoop_Reversed(blobs, i + 1,
                            [commitments EXCEPT ![Len(blobs) + 1 - i] = commitment.val],
                            [versionedHashes EXCEPT ![Len(blobs) + 1 - i] =
                                KZGToVersionedHash(commitment.val)],
                            [proofs EXCEPT ![Len(blobs) + 1 - i] = proof.val])

\* the loop of ComputeCommitmentsAndProofs (for i, blob := range blobs), from
\* blob i on (1-based)
RECURSIVE CCPLoop(_, _, _, _, _)
CCPLoop(blobs, i, commitments, versionedHashes, proofs) ==
    IF i > Len(blobs)
    THEN CCPResult(List(commitments), List(versionedHashes), List(proofs), NoError)
    ELSE LET commitment == BlobToKZGCommitment(blobs[i])
         IN IF ~commitment.ok
            THEN CCPResult(NilList, NilList, NilList,
                           Errorf("could not convert blob to commitment: %v",
                                  << ErrorArg(commitment.err) >>))
            ELSE LET proof == ComputeBlobKZGProof(blobs[i], commitment.val)
                 IN IF ~proof.ok
                    THEN CCPResult(NilList, NilList, NilList,
                                   Errorf("could not compute proof for blob: %v",
                                          << ErrorArg(proof.err) >>))
                    ELSE CCPLoop(blobs, i + 1,
                            [commitments EXCEPT ![i] = commitment.val],
                            [versionedHashes EXCEPT ![i] = KZGToVersionedHash(commitment.val)],
                            [proofs EXCEPT ![i] = proof.val])

\* Blobs.ComputeCommitmentsAndProofs(cryptoCtx)
ComputeCommitmentsAndProofs(blobs) ==
    CCPLoop(blobs, 1,
            [i \in 1..Len(blobs) |-> ZeroCommitment],
            [i \in 1..Len(blobs) |-> ZeroHash],
            [i \in 1..Len(blobs) |-> ZeroProof])

-----------------------------------------------------------------------------
(* helper/blobs.go: GenerateBlob, BlobDataGenerator *)

\* errors.Wrap(err, message)
Wrap(e, message) == Errorf(message, << ErrorArg(e) >>)

\* BlobID.GenerateBlob: (blob, commitment, err)
GenerateBlob(id) ==
    LET filled == FillBlob(id, ZeroBlob)
    IN IF filled.err # Nil
       THEN [blob |-> NilBlob, commitment |-> << >>, err |-> Wrap(filled.err, "GenerateBlob (1)")]
       ELSE LET kzgCommitment == BlobToKZGCommitment(filled.blob)
            IN IF ~kzgCommitment.ok
               THEN [blob |-> NilBlob, commitment |-> << >>,
                     err |-> Wrap(kzgCommitment.err, "GenerateBlob (2)")]
               ELSE [blob |-> filled.blob, commitment |-> kzgCommitment.val, err |-> NoError]

GenResult(hashes, blobData, err) == [hashes |-> hashes, blobData |-> blobData, err |-> err]

NilBlobData == [nil |-> TRUE, Blobs |-> NilList, Commitments |-> NilList, Proofs |-> NilList]

\* the first loop of BlobDataGenerator (for i := 0; i < blobCount; i++)
RECURSIVE GenLoop(_, _, _, _, _)
GenLoop(startBlobId, blobCount, i, blobs, commitments) ==
    IF i >= blobCount
    THEN [blobs |-> blobs, commitments |-> commitments, err |-> NoError]
    ELSE LET g == GenerateBlob(startBlobId + i)
         IN IF g.err # NoError
            THEN [blobs |-> << >>, commitments |-> << >>, err |-> g.err]
            ELSE GenLoop(startBlobId, blobCount, i + 1,
                         [blobs EXCEPT ![i + 1] = g.blob],
                         [commitments EXCEPT ![i + 1] = g.commitment])

\* BlobDataGenerator(startBlobId, blobCount): (hashes, blobData, err)
BlobDataGenerator(startBlobId, blobCount) ==
    LET made == GenLoop(startBlobId, blobCount, 0,
                        [i \in 1..blobCount |-> ZeroBlob],
                        [i \in 1..blobCount |-> ZeroCommitment])
    IN IF made.err # NoError THEN GenResult(NilList, NilBlobData, made.err)
       ELSE LET \* var hashes []common.Hash, appended to: nil when there is none
                hashes == IF blobCount = 0 THEN NilList
                          ELSE List([i \in 1..blobCount |->
                                        ComputeVersionedHash(made.commitments[i])])
                ccp == ComputeCommitmentsAndProofs(made.blobs)
            IN IF ccp.err # NoError THEN GenResult(NilList, NilBlobData, ccp.err)
               ELSE GenResult(hashes,
                              [nil |-> FALSE, Blobs |-> List(made.blobs),
                               Commitments |-> List(made.commitments),
                               Proofs |-> ccp.proofs],
                              NoError)

-----------------------------------------------------------------------------
(* SpecCommit: the commitment engine driven over bounded inputs.            *)
(* The blobs are the synthesized blobs of the BlobIDs 0..MaxBlobID under a  *)
(* sample of sha256 that maps different inputs to different digests. The    *)
(* capability is opaque: Init draws the set of blobs it fails to commit to  *)
(* and the set of blobs it fails to prove.                                  *)

\* sample digest of the j-th hash of the chain of BlobID k
ChainDigest(k, j) ==
    [i \in 1..32 |-> IF i = 1 THEN << 114, 115, 255 >>[((k + j) % 3) + 1]
                     ELSE IF i = 2 THEN k
                     ELSE IF i = 3 THEN j
                     ELSE 255]

\* sample commitment and proof of the blob of BlobID k (compressed points:
\* the blob of zeros commits to the point at infinity, 0xc0 0x00 ...)
SampleCommitment(k) ==
    [i \in 1..48 |-> IF i = 1 THEN (IF k = 0 THEN 192 ELSE 128 + k) ELSE k]
SampleProof(k) ==
    [i \in 1..48 |-> IF i = 1 THEN 0 ELSE 100 + k]

SampleCommitments == { SampleCommitment(k) : k \in BlobIDs }

\* sample digest of the commitment of BlobID k: its first byte is the
\* version byte for k = 1 and differs from it otherwise
CommitmentDigest(k) ==
    [i \in 1..32 |-> IF i = 1 THEN k ELSE IF i = 2 THEN 77 ELSE (k + i) % 256]

SampleSha ==
    [x \in { BlobIdBytes(k) : k \in BlobIDs }
           \cup { ChainDigest(k, j) : k \in BlobIDs, j \in 1..FieldElementsPerBlob }
           \cup SampleCommitments |->
        IF Len(x) = 8 THEN ChainDigest(x[8], 1)
        ELSE IF Len(x) = 32 THEN ChainDigest(x[2], x[3] + 1)
        ELSE CommitmentDigest(x[2])]

\* the blob of BlobID k
SynthBlob(k) == FillBlob(k, ZeroBlob).blob

\* blob lists of at most MaxBlobs synthesized blobs, given by their BlobIDs
RECURSIVE IdLists(_)
IdLists(n) ==
    IF n = 0 THEN { << >> }
    ELSE IdLists(n - 1) \cup
         { Append(l, k) : l \in { m \in IdLists(n - 1) : Len(m) = n - 1 }, k \in BlobIDs }

NoCCP == CCPResult(NilList, NilList, NilList, Errorf("not called", << >>))
NoGen == GenResult(NilList, NilBlobData, Errorf("not called", << >>))

InitCommit ==
    /\ sha = SampleSha
    /\ \E commitFails \in SUBSET BlobIDs :
          kzgCommit = [b \in { SynthBlob(k) : k \in BlobIDs } |->
                          LET k == CHOOSE k \in BlobIDs : SynthBlob(k) = b
                          IN IF k \in commitFails THEN KzgFailure
                             ELSE KzgValue(SampleCommitment(k))]
    /\ \E proofFails \in SUBSET BlobIDs :
          kzgProof = [b \in { SynthBlob(k) : k \in BlobIDs } |->
                          LET k == CHOOSE k \in BlobIDs : SynthBlob(k) = b
                          IN IF k \in proofFails THEN KzgFailure
                             ELSE KzgValue(SampleProof(k))]
    /\ cOp = "none"
    /\ vhIn = << >>
    /\ vhOut = << >>
    /\ ccpIn = << >>
    /\ ccpOut = NoCCP
    /\ genIn = << 0, 0 >>
    /\ genOut = NoGen

\* c.ComputeVersionedHash() for a commitment c
DoComputeVersionedHash ==
    /\ cOp = "none"
    /\ \E c \in SampleCommitments :
          /\ vhIn' = c
          /\ vhOut' = ComputeVersionedHash(c)
    /\ cOp' = "vh"
    /\ UNCHANGED <<kzgCommit, kzgProof, ccpIn, ccpOut, genIn, genOut, blobVars, stepVars, restVars>>

\* blobs.ComputeCommitmentsAndProofs(cryptoCtx) for a list of blobs
DoComputeCommitmentsAndProofs ==
    /\ cOp = "none"
    /\ \E ids \in IdLists(MaxBlobs) :
          LET blobs == [i \in 1..Len(ids) |-> SynthBlob(ids[i])]
          IN /\ ccpIn' = blobs
             /\ ccpOut' = ComputeCommitmentsAndProofs(blobs)
    /\ cOp' = "ccp"
    /\ UNCHANGED <<kzgCommit, kzgProof, vhIn, vhOut, genIn, genOut, blobVars, stepVars, restVars>>

\* BlobDataGenerator(startBlobId, blobCount)
DoBlobDataGenerator ==
    /\ cOp = "none"
    /\ \E startBlobId \in BlobIDs, blobCount \in 0..MaxBlobs :
          /\ startBlobId + blobCount - 1 <= MaxBlobID
          /\ genIn' = << startBlobId, blobCount >>
          /\ genOut' = BlobDataGenerator(startBlobId, blobCount)
    /\ cOp' = "gen"
    /\ UNCHANGED <<kzgCommit, kzgProof, vhIn, vhOut, ccpIn, ccpOut, blobVars, stepVars, restVars>>

NextCommit == DoComputeVersionedHash \/ DoComputeCommitmentsAndProofs \/ DoBlobDataGenerator


-----------------------------------------------------------------------------
(* suites/blobs/steps.go: the step state machine                            *)
(* One ParallelSteps composite runs its sub-steps as goroutines over the    *)
(* shared TestBlobTxPool. A sub-step is a SendBlobTransactions or a         *)
(* NewPayloads step. Every statement that touches shared state is a step of *)
(* its own; t.Fatalf ends the calling goroutine (runtime.Goexit), running   *)
(* its deferred calls.                                                      *)

\* len(t.Engines) and len(globals.TestAccounts) of the run
NumEngines == 1
NumTestAccounts == 2

IntArg(n) == [kind |-> "int", val |-> n, text |-> ""]

StepDesc(kind, count, blobsPerTx, accountIndex, clientIndex, skipVerify) ==
    [kind |-> kind, count |-> count, BlobsPerTransaction |-> blobsPerTx,
     AccountIndex |-> accountIndex, ClientIndex |-> clientIndex,
     SkipVerificationFromNode |-> skipVerify]

\* the sub-steps a composite is made of: senders with a valid and with an
\* invalid client and account, and a NewPayloads step of one payload
StepChoices ==
    { StepDesc("send", MaxSendCount, 0, 0, 0, FALSE),
      StepDesc("send", 1, 2, 1, 0, TRUE),
      StepDesc("send", 1, 0, 0, NumEngines, FALSE),
      StepDesc("send", 1, 0, NumTestAccounts, 0, FALSE),
      StepDesc("payload", 1, 0, 0, 0, FALSE) }

\* the lists of at most n sub-steps, no sub-step twice
StepLists(n) ==
    { l \in UNION { [1..k -> StepChoices] : k \in 0..n } :
        \A i, j \in 1..Len(l) : i # j => l[i] # l[j] }

\* SendBlobTransactions.GetBlobsPerTransaction
GetBlobsPerTransaction(step) ==
    IF step.BlobsPerTransaction = 0 THEN 1 ELSE step.BlobsPerTransaction

NoTx == [account |-> 0, nonce |-> 0, blobId |-> 0, blobCount |-> 0]

\* typ.Transaction.Hash(): different transactions have different hashes
Hash(tx) == << tx.account, tx.nonce, tx.blobId, tx.blobCount >>

\* mutant: the assignment replaces the map by one holding only the new entry
MapPut_Fresh(m, k, v) == [x \in {k} |-> v]

\* m[k] = v of a Go map
MapPut(m, k, v) == [x \in DOMAIN m \cup {k} |-> IF x = k THEN v ELSE m[x]]

NoLocals == [bTx |-> 0, blobID |-> 0, blobTx |-> NoTx, payload |-> {}]

InitSteps ==
    /\ steps \in StepLists(MaxSteps)
    /\ mainPc = "loop"
    /\ launched = 0
    /\ wg = 0
    /\ errs = << >>
    /\ errsClosed = FALSE
    /\ result = NoError
    /\ gpc = [g \in 1..Len(steps) |-> "unborn"]
    /\ gloc = [g \in 1..Len(steps) |-> NoLocals]
    /\ gout = [g \in 1..Len(steps) |-> "running"]
    /\ pool = [Transactions |-> << >>, HashesByIndex |-> << >>,
               CurrentTransactionIndex |-> 0, CurrentBlobID |-> 0]
    /\ mutex = 0
    /\ node = [sent |-> {}, nonce |-> [a \in 0..(NumTestAccounts - 1) |-> 0]]

Goroutines == 1..Len(steps)

---- (* ParallelSteps.Execute *)

\* for _, s := range step.Steps { wg.Add(1); go func(s TestStep) {...}(s) }
Launch ==
    /\ mainPc = "loop"
    /\ launched < Len(steps)
    /\ wg' = wg + 1
    /\ launched' = launched + 1
    /\ gpc' = [gpc EXCEPT ![launched + 1] = "start"]
    /\ UNCHANGED <<steps, mainPc, errs, errsClosed, result, gloc, gout, pool, mutex, node>>
    /\ UNCHANGED <<blobVars, commitVars, restVars>>

\* mutant: wg.Wait() is left out
Wait_Missing ==
    /\ mainPc = "loop"
    /\ launched = Len(steps)
    /\ mainPc' = "close"
    /\ UNCHANGED <<steps, launched, wg, errs, errsClosed, result, gpc, gloc, gout,
                   pool, mutex, node>>
    /\ UNCHANGED <<blobVars, commitVars, restVars>>

\* wg.Wait(): returns when the counter is zero
Wait ==
    /\ mainPc = "loop"
    /\ launched = Len(steps)
    /\ wg = 0
    /\ mainPc' = "close"
    /\ UNCHANGED <<steps, launched, wg, errs, errsClosed, result, gpc, gloc, gout,
                   pool, mutex, node>>
    /\ UNCHANGED <<blobVars, commitVars, restVars>>

\* close(errs)
CloseErrs ==
    /\ mainPc = "close"
    /\ errsClosed' = TRUE
    /\ mainPc' = "range"
    /\ UNCHANGED <<steps, launched, wg, errs, result, gpc, gloc, gout, pool, mutex, node>>
    /\ UNCHANGED <<blobVars, commitVars, restVars>>

\* mutant: the range over errs runs to its end and the last error is returned
Return_Last ==
    /\ mainPc = "range"
    /\ result' = IF Len(errs) > 0 THEN errs[Len(errs)] ELSE NoError
    /\ errs' = << >>
    /\ mainPc' = "returned"
    /\ UNCHANGED <<steps, launched, wg, errsClosed, gpc, gloc, gout, pool, mutex, node>>
    /\ UNCHANGED <<blobVars, commitVars, restVars>>

\* for err := range errs { return err }; return nil
Return ==
    /\ mainPc = "range"
    /\ result' = IF Len(errs) > 0 THEN Head(errs) ELSE NoError
    /\ errs' = IF Len(errs) > 0 THEN Tail(errs) ELSE errs
    /\ mainPc' = "returned"
    /\ UNCHANGED <<steps, launched, wg, errsClosed, gpc, gloc, gout, pool, mutex, node>>
    /\ UNCHANGED <<blobVars, commitVars, restVars>>

---- (* the goroutine of a sub-step *)

\* mutant: the channel has a single slot
ErrsCapacity_One == IF Len(steps) > 0 THEN 1 ELSE 0

\* errs := make(chan error, len(step.Steps))
ErrsCapacity == Len(steps)

\* s.Execute(t) returned err: if err != nil { errs <- err }; the send waits
\* while the channel is full
Returned(g, err) ==
    /\ err # NoError => Len(errs) < ErrsCapacity
    /\ errs' = IF err # NoError THEN Append(errs, err) ELSE errs
    /\ gout' = [gout EXCEPT ![g] = IF err # NoError THEN "error" ELSE "nil"]
    /\ gpc' = [gpc EXCEPT ![g] = "defer"]

\* t.Fatalf inside s.Execute(t): the goroutine exits, nothing is sent on errs
Fatalf(g) ==
    /\ errs' = errs
    /\ gout' = [gout EXCEPT ![g] = "fatal"]
    /\ gpc' = [gpc EXCEPT ![g] = "defer"]

\* defer wg.Done()
Done(g) ==
    /\ gpc[g] = "defer"
    /\ wg' = wg - 1
    /\ gpc' = [gpc EXCEPT ![g] = "done"]
    /\ UNCHANGED <<steps, mainPc, launched, errs, errsClosed, result, gloc, gout,
                   pool, mutex, node>>
    /\ UNCHANGED <<blobVars, commitVars, restVars>>

---- (* SendBlobTransactions.Execute *)

\* the check of ClientIndex before the loop
SendStart(g) ==
    /\ gpc[g] = "start"
    /\ steps[g].kind = "send"
    /\ IF steps[g].ClientIndex >= Len(engines)
       THEN Returned(g, Errorf("invalid client index %d", << IntArg(steps[g].ClientIndex) >>))
       ELSE /\ gpc' = [gpc EXCEPT ![g] = "create"]
            /\ UNCHANGED <<errs, gout>>
    /\ UNCHANGED <<steps, mainPc, launched, wg, errsClosed, result, gloc, pool, mutex, node>>
    /\ UNCHANGED <<blobVars, commitVars, restVars>>

\* the loop test, and the BlobTransactionCreator of one transaction: it reads
\* t.CurrentBlobID, then AccountIndex is checked
SendCreate(g) ==
    /\ gpc[g] = "create"
    /\ IF gloc[g].bTx >= steps[g].count
       THEN Returned(g, NoError) /\ UNCHANGED gloc
       ELSE IF steps[g].AccountIndex # 0 /\ steps[g].AccountIndex >= NumTestAccounts
       THEN /\ Returned(g, Errorf("invalid account index %d",
                                  << IntArg(steps[g].AccountIndex) >>))
            /\ UNCHANGED gloc
       ELSE /\ gloc' = [gloc EXCEPT ![g].blobID = pool.CurrentBlobID]
            /\ gpc' = [gpc EXCEPT ![g] = "send"]
            /\ UNCHANGED <<errs, gout>>
    /\ UNCHANGED <<steps, mainPc, launched, wg, errsClosed, result, pool, mutex, node>>
    /\ UNCHANGED <<blobVars, commitVars, restVars>>

\* helper.SendNextTransaction / helper.ReplaceLastTransaction: a network call
\* that builds, signs and sends the transaction; on an error, t.Fatalf
SendTransaction(g) ==
    /\ gpc[g] = "send"
    /\ \/ /\ Fatalf(g)
          /\ UNCHANGED <<gloc, node>>
       \/ LET a  == steps[g].AccountIndex
              tx == [account |-> a, nonce |-> node.nonce[a],
                     blobId |-> gloc[g].blobID,
                     blobCount |-> GetBlobsPerTransaction(steps[g])]
          IN /\ node' = [sent |-> node.sent \cup {tx},
                         nonce |-> [node.nonce EXCEPT ![a] = @ + 1]]
             /\ gloc' = [gloc EXCEPT ![g].blobTx = tx]
             /\ gpc' = [gpc EXCEPT ![g] =
                           IF steps[g].SkipVerificationFromNode THEN "lock" ELSE "verify"]
             /\ UNCHANGED <<errs, gout>>
    /\ UNCHANGED <<steps, mainPc, launched, wg, errsClosed, result, pool, mutex>>
    /\ UNCHANGED <<blobVars, commitVars, restVars>>

\* VerifyTransactionFromNode: a network call, its result is not looked at
VerifyFromNode(g) ==
    /\ gpc[g] = "verify"
    /\ gpc' = [gpc EXCEPT ![g] = "lock"]
    /\ UNCHANGED <<steps, mainPc, launched, wg, errs, errsClosed, result, gloc, gout,
                   pool, mutex, node>>
    /\ UNCHANGED <<blobVars, commitVars, restVars>>

\* mutant: the critical section is entered without taking the mutex
Lock_NotTaken(g) ==
    /\ gpc[g] = "lock"
    /\ gpc' = [gpc EXCEPT ![g] = "add"]
    /\ UNCHANGED <<steps, mainPc, launched, wg, errs, errsClosed, result, gloc, gout,
                   pool, mutex, node>>
    /\ UNCHANGED <<blobVars, commitVars, restVars>>

\* t.TestBlobTxPool.Mutex.Lock()
Lock(g) ==
    /\ gpc[g] = "lock"
    /\ mutex = 0
    /\ mutex' = g
    /\ gpc' = [gpc EXCEPT ![g] = "add"]
    /\ UNCHANGED <<steps, mainPc, launched, wg, errs, errsClosed, result, gloc, gout,
                   pool, node>>
    /\ UNCHANGED <<blobVars, commitVars, restVars>>

\* TestBlobTxPool.AddBlobTransaction: pool.Transactions[tx.Hash()] = tx
AddBlobTransaction(p, tx) ==
    [p EXCEPT !.Transactions = MapPut(p.Transactions, Hash(tx), tx)]

\* t.AddBlobTransaction(blobTx)
Add(g) ==
    /\ gpc[g] = "add"
    /\ pool' = AddBlobTransaction(pool, gloc[g].blobTx)
    /\ gpc' = [gpc EXCEPT ![g] = "index"]
    /\ UNCHANGED <<steps, mainPc, launched, wg, errs, errsClosed, result, gloc, gout,
                   mutex, node>>
    /\ UNCHANGED <<blobVars, commitVars, restVars>>

\* mutant: the hash is recorded and the index is not advanced
Index_NoIncrement(g) ==
    /\ gpc[g] = "index"
    /\ pool' = [pool EXCEPT
                  !.HashesByIndex = MapPut(pool.HashesByIndex, pool.CurrentTransactionIndex,
                                           Hash(gloc[g].blobTx))]
    /\ gpc' = [gpc EXCEPT ![g] = "blobid"]
    /\ UNCHANGED <<steps, mainPc, launched, wg, errs, errsClosed, result, gloc, gout,
                   mutex, node>>
    /\ UNCHANGED <<blobVars, commitVars, restVars>>

\* t.HashesByIndex[t.CurrentTransactionIndex] = blobTx.Hash()
\* t.CurrentTransactionIndex += 1
Index(g) ==
    /\ gpc[g] = "index"
    /\ pool' = [pool EXCEPT
                  !.HashesByIndex = MapPut(pool.HashesByIndex, pool.CurrentTransactionIndex,
                                           Hash(gloc[g].blobTx)),
                  !.CurrentTransactionIndex = @ + 1]
    /\ gpc' = [gpc EXCEPT ![g] = "blobid"]
    /\ UNCHANGED <<steps, mainPc, launched, wg, errs, errsClosed, result, gloc, gout,
                   mutex, node>>
    /\ UNCHANGED <<blobVars, commitVars, restVars>>

\* mutant: the blob counter advances by one per transaction
AdvanceBlobID_ByOne(g) ==
    /\ gpc[g] = "blobid"
    /\ pool' = [pool EXCEPT !.CurrentBlobID = @ + 1]
    /\ gpc' = [gpc EXCEPT ![g] = "unlock"]
    /\ UNCHANGED <<steps, mainPc, launched, wg, errs, errsClosed, result, gloc, gout,
                   mutex, node>>
    /\ UNCHANGED <<blobVars, commitVars, restVars>>

\* t.CurrentBlobID += helper.BlobID(blobCountPerTx)
AdvanceBlobID(g) ==
    /\ gpc[g] = "blobid"
    /\ pool' = [pool EXCEPT !.CurrentBlobID = @ + GetBlobsPerTransaction(steps[g])]
    /\ gpc' = [gpc EXCEPT ![g] = "unlock"]
    /\ UNCHANGED <<steps, mainPc, launched, wg, errs, errsClosed, result, gloc, gout,
                   mutex, node>>
    /\ UNCHANGED <<blobVars, commitVars, restVars>>

\* t.TestBlobTxPool.Mutex.Unlock(), and bTx++
Unlock(g) ==
    /\ gpc[g] = "unlock"
    /\ mutex' = 0
    /\ gloc' = [gloc EXCEPT ![g].bTx = @ + 1]
    /\ gpc' = [gpc EXCEPT ![g] = "create"]
    /\ UNCHANGED <<steps, mainPc, launched, wg, errs, errsClosed, result, gout, pool, node>>
    /\ UNCHANGED <<blobVars, commitVars, restVars>>


---- (* NewPayloads.Execute and GetBlobDataInPayload *)

\* the lookups of GetBlobDataInPayload: pool.Transactions[txData.Hash()] for
\* every blob transaction of the payload; an error when one is not found
GetBlobDataInPayload(p, payload) ==
    IF \E tx \in payload : Hash(tx) \notin DOMAIN p.Transactions
    THEN [txs |-> {}, err |-> Errorf("could not find transaction %s in the pool", << >>)]
    ELSE [txs |-> { p.Transactions[Hash(tx)] : tx \in payload }, err |-> NoError]

PayloadStart(g) ==
    /\ gpc[g] = "start"
    /\ steps[g].kind = "payload"
    /\ gpc' = [gpc EXCEPT ![g] = "produce"]
    /\ UNCHANGED <<steps, mainPc, launched, wg, errs, errsClosed, result, gloc, gout,
                   pool, mutex, node>>
    /\ UNCHANGED <<blobVars, commitVars, restVars>>

\* t.CLMock.ProduceSingleBlock, up to the built payload: the client builds
\* it from transactions it was sent; the loop test of NewPayloads.Execute
ProducePayload(g) ==
    /\ gpc[g] = "produce"
    /\ IF gloc[g].bTx >= steps[g].count
       THEN Returned(g, NoError) /\ UNCHANGED gloc
       ELSE /\ \E payload \in SUBSET node.sent :
                  gloc' = [gloc EXCEPT ![g].payload = payload]
            /\ gpc' = [gpc EXCEPT ![g] = "onGetPayload"]
            /\ UNCHANGED <<errs, gout>>
    /\ UNCHANGED <<steps, mainPc, launched, wg, errsClosed, result, pool, mutex, node>>
    /\ UNCHANGED <<blobVars, commitVars, restVars>>

\* the OnGetPayload callback: GetBlobDataInPayload reads the pool, then
\* VerifyBlobBundle compares with the client's bundle; t.Fatalf on an error
OnGetPayload(g) ==
    /\ gpc[g] = "onGetPayload"
    /\ \/ /\ GetBlobDataInPayload(pool, gloc[g].payload).err = NoError
          /\ gpc' = [gpc EXCEPT ![g] = "onNewPayload"]
          /\ UNCHANGED <<errs, gout>>
       \/ Fatalf(g)
    /\ UNCHANGED <<steps, mainPc, launched, wg, errsClosed, result, gloc, pool, mutex, node>>
    /\ UNCHANGED <<blobVars, commitVars, restVars>>

\* the OnNewPayloadBroadcast callback: engine_newPayload, a network call;
\* t.Fatalf when the response is not the expected one
OnNewPayloadBroadcast(g) ==
    /\ gpc[g] = "onNewPayload"
    /\ \/ /\ gpc' = [gpc EXCEPT ![g] = "onForkchoice"]
          /\ UNCHANGED <<errs, gout>>
       \/ Fatalf(g)
    /\ UNCHANGED <<steps, mainPc, launched, wg, errsClosed, result, gloc, pool, mutex, node>>
    /\ UNCHANGED <<blobVars, commitVars, restVars>>

\* the OnForkchoiceBroadcast callback: GetBlobDataInPayload reads the pool,
\* then VerifyPayload fetches the receipts; t.Fatalf on an error
OnForkchoiceBroadcast(g) ==
    /\ gpc[g] = "onForkchoice"
    /\ \/ /\ GetBlobDataInPayload(pool, gloc[g].payload).err = NoError
          /\ gloc' = [gloc EXCEPT ![g].bTx = @ + 1]
          /\ gpc' = [gpc EXCEPT ![g] = "produce"]
          /\ UNCHANGED <<errs, gout>>
       \/ Fatalf(g) /\ UNCHANGED gloc
    /\ UNCHANGED <<steps, mainPc, launched, wg, errsClosed, result, pool, mutex, node>>
    /\ UNCHANGED <<blobVars, commitVars, restVars>>

Next ==
    \/ Launch
    \/ Wait
    \/ CloseErrs
    \/ Return
    \/ \E g \in Goroutines : SendStart(g)
    \/ \E g \in Goroutines : SendCreate(g)
    \/ \E g \in Goroutines : SendTransaction(g)
    \/ \E g \in Goroutines : VerifyFromNode(g)
    \/ \E g \in Goroutines : Lock(g)
    \/ \E g \in Goroutines : Add(g)
    \/ \E g \in Goroutines : Index(g)
    \/ \E g \in Goroutines : AdvanceBlobID(g)
    \/ \E g \in Goroutines : Unlock(g)
    \/ \E g \in Goroutines : PayloadStart(g)
    \/ \E g \in Goroutines : ProducePayload(g)
    \/ \E g \in Goroutines : OnGetPayload(g)
    \/ \E g \in Goroutines : OnNewPayloadBroadcast(g)
    \/ \E g \in Goroutines : OnForkchoiceBroadcast(g)
    \/ \E g \in Goroutines : Done(g)

-----------------------------------------------------------------------------
(* helper/blobs.go: the crypto context, initialized under a sync.Once.      *)
(*   func (o *Once) Do(f func()) { if o.done.Load() == 0 { o.doSlow(f) } }  *)
(*   func (o *Once) doSlow(f func()) {                                      *)
(*       o.m.Lock(); defer o.m.Unlock()                                     *)
(*       if o.done.Load() == 0 { defer o.done.Store(1); f() } }             *)

MaxCallers == 2
MaxCalls == 2

Callers == 1..MaxCallers

InitCtx ==
    /\ onceDone = 0
    /\ onceM = 0
    /\ gCryptoCtx = "zero"
    /\ constructions = 0
    /\ proc = "running"
    /\ cpc = [c \in Callers |-> "idle"]
    /\ cfn = [c \in Callers |-> "none"]
    /\ cpanic = [c \in Callers |-> FALSE]
    /\ cret = [c \in Callers |-> "none"]
    /\ calls = [c \in Callers |-> 0]

\* a goroutine calls InitializeCryptoCtx, or CryptoCtx, which calls it first
CallStart(c) ==
    /\ proc = "running"
    /\ cpc[c] = "idle"
    /\ calls[c] < MaxCalls
    /\ \E fn \in {"InitializeCryptoCtx", "CryptoCtx"} : cfn' = [cfn EXCEPT ![c] = fn]
    /\ cpc' = [cpc EXCEPT ![c] = "do"]
    /\ UNCHANGED <<onceDone, onceM, gCryptoCtx, constructions, proc, cpanic, cret, calls>>
    /\ UNCHANGED <<blobVars, commitVars, stepVars, verVars, utilVars>>

\* initCryptoCtx.Do: the fast path on the done flag
OnceDo(c) ==
    /\ proc = "running"
    /\ cpc[c] = "do"
    /\ cpc' = [cpc EXCEPT ![c] = IF onceDone = 0 THEN "lock" ELSE "return"]
    /\ UNCHANGED <<onceDone, onceM, gCryptoCtx, constructions, proc, cfn, cpanic, cret, calls>>
    /\ UNCHANGED <<blobVars, commitVars, stepVars, verVars, utilVars>>

\* doSlow: o.m.Lock()
OnceLock(c) ==
    /\ proc = "running"
    /\ cpc[c] = "lock"
    /\ onceM = 0
    /\ onceM' = c
    /\ cpc' = [cpc EXCEPT ![c] = "check"]
    /\ UNCHANGED <<onceDone, gCryptoCtx, constructions, proc, cfn, cpanic, cret, calls>>
    /\ UNCHANGED <<blobVars, commitVars, stepVars, verVars, utilVars>>

\* doSlow: if o.done.Load() == 0
OnceCheck(c) ==
    /\ proc = "running"
    /\ cpc[c] = "check"
    /\ cpc' = [cpc EXCEPT ![c] = IF onceDone = 0 THEN "construct" ELSE "unlock"]
    /\ UNCHANGED <<onceDone, onceM, gCryptoCtx, constructions, proc, cfn, cpanic, cret, calls>>
    /\ UNCHANGED <<blobVars, commitVars, stepVars, verVars, utilVars>>

\* ctx, err := gokzg4844.NewContext4096Insecure1337(); on an error, panic:
\* the deferred calls of doSlow run while the goroutine panics
Construct(c) ==
    /\ proc = "running"
    /\ cpc[c] = "construct"
    /\ constructions' = constructions + 1
    /\ \/ /\ cpc' = [cpc EXCEPT ![c] = "assign"]
          /\ UNCHANGED cpanic
       \/ /\ cpanic' = [cpanic EXCEPT ![c] = TRUE]
          /\ cpc' = [cpc EXCEPT ![c] = "storeDone"]
    /\ UNCHANGED <<onceDone, onceM, gCryptoCtx, proc, cfn, cret, calls>>
    /\ UNCHANGED <<blobVars, commitVars, stepVars, verVars, utilVars>>

\* gCryptoCtx = *ctx: a copy of the structure, not atomic
AssignBegin(c) ==
    /\ proc = "running"
    /\ cpc[c] = "assign"
    /\ gCryptoCtx' = "partial"
    /\ cpc' = [cpc EXCEPT ![c] = "assigning"]
    /\ UNCHANGED <<onceDone, onceM, constructions, proc, cfn, cpanic, cret, calls>>
    /\ UNCHANGED <<blobVars, commitVars, stepVars, verVars, utilVars>>

AssignEnd(c) ==
    /\ proc = "running"
    /\ cpc[c] = "assigning"
    /\ gCryptoCtx' = "ctx"
    /\ cpc' = [cpc EXCEPT ![c] = "storeDone"]
    /\ UNCHANGED <<onceDone, onceM, constructions, proc, cfn, cpanic, cret, calls>>
    /\ UNCHANGED <<blobVars, commitVars, stepVars, verVars, utilVars>>

\* the deferred o.done.Store(1)
StoreDone(c) ==
    /\ proc = "running"
    /\ cpc[c] = "storeDone"
    /\ onceDone' = 1
    /\ cpc' = [cpc EXCEPT ![c] = "unlock"]
    /\ UNCHANGED <<onceM, gCryptoCtx, constructions, proc, cfn, cpanic, cret, calls>>
    /\ UNCHANGED <<blobVars, commitVars, stepVars, verVars, utilVars>>

\* the deferred o.m.Unlock(); a panicking goroutine goes on unwinding
OnceUnlock(c) ==
    /\ proc = "running"
    /\ cpc[c] = "unlock"
    /\ onceM' = 0
    /\ cpc' = [cpc EXCEPT ![c] = IF cpanic[c] THEN "panicked" ELSE "return"]
    /\ UNCHANGED <<onceDone, gCryptoCtx, constructions, proc, cfn, cpanic, cret, calls>>
    /\ UNCHANGED <<blobVars, commitVars, stepVars, verVars, utilVars>>

\* InitializeCryptoCtx returns; CryptoCtx returns gCryptoCtx
CallReturn(c) ==
    /\ proc = "running"
    /\ cpc[c] = "return"
    /\ cret' = [cret EXCEPT ![c] = IF cfn[c] = "CryptoCtx" THEN gCryptoCtx ELSE @]
    /\ calls' = [calls EXCEPT ![c] = @ + 1]
    /\ cpc' = [cpc EXCEPT ![c] = "idle"]
    /\ UNCHANGED <<onceDone, onceM, gCryptoCtx, constructions, proc, cfn, cpanic>>
    /\ UNCHANGED <<blobVars, commitVars, stepVars, verVars, utilVars>>

\* the panic reaches the top of its goroutine: the process exits
ProcessExit ==
    /\ proc = "running"
    /\ \E c \in Callers : cpc[c] = "panicked"
    /\ proc' = "exited"
    /\ UNCHANGED <<onceDone, onceM, gCryptoCtx, constructions, cpc, cfn, cpanic, cret, calls>>
    /\ UNCHANGED <<blobVars, commitVars, stepVars, verVars, utilVars>>

NextCtx ==
    \/ \E c \in Callers : CallStart(c)
    \/ \E c \in Callers : OnceDo(c)
    \/ \E c \in Callers : OnceLock(c)
    \/ \E c \in Callers : OnceCheck(c)
    \/ \E c \in Callers : Construct(c)
    \/ \E c \in Callers : AssignBegin(c)
    \/ \E c \in Callers : AssignEnd(c)
    \/ \E c \in Callers : StoreDone(c)
    \/ \E c \in Callers : OnceUnlock(c)
    \/ \E c \in Callers : CallReturn(c)
    \/ ProcessExit

IdleCtx ==
    /\ onceDone = 0
    /\ onceM = 0
    /\ gCryptoCtx = "zero"
    /\ constructions = 0
    /\ proc = "idle"
    /\ cpc = << >>
    /\ cfn = << >>
    /\ cpanic = << >>
    /\ cret = << >>
    /\ calls = << >>

-----------------------------------------------------------------------------
(* suites/blobs/steps.go: GetBlobDataInPayload in full, VerifyBlobBundle.   *)
(* A payload transaction is its type and its hash; a pool entry is a        *)
(* typ.Transaction: whether it is a *typ.TransactionWithBlobData, whether   *)
(* its BlobData is set, the lists of the BlobData and its BlobHashes().     *)

\* types.BlobTxType
BlobTxType == "blob"

\* a payload transaction for which txData.UnmarshalBinary returns an error
Undecodable == "undecodable"

BlobWrapData(versionedHash, kzg, b, proof) ==
    [VersionedHash |-> versionedHash, KZG |-> kzg, Blob |-> b, Proof |-> proof]

\* the three results of GetBlobDataInPayload
GetResult(blobTxsInPayload, blobDataInPayload, err) ==
    [txs |-> blobTxsInPayload, data |-> blobDataInPayload, err |-> err]

\* mutant: the length of the proof list is not compared
InvalidWrapData_NoProofs(blobTx) ==
    \/ Len(blobTx.BlobHashes) # Len(blobTx.Commitments)
    \/ Len(blobTx.Commitments) # Len(blobTx.Blobs)

\* len(versionedHashes) != len(kzgs) || len(kzgs) != len(blobs) ||
\* len(blobs) != len(proofs)
InvalidWrapData(blobTx) ==
    \/ Len(blobTx.BlobHashes) # Len(blobTx.Commitments)
    \/ Len(blobTx.Commitments) # Len(blobTx.Blobs)
    \/ Len(blobTx.Blobs) # Len(blobTx.Proofs)

\* the BlobWrapData appended for one blob transaction
WrapDataOf(blobTx) ==
    [i \in 1..Len(blobTx.BlobHashes) |->
        BlobWrapData(blobTx.BlobHashes[i], blobTx.Commitments[i],
                     blobTx.Blobs[i], blobTx.Proofs[i])]

\* mutant: a transaction that is not in the pool ends the loop with the
\* lists collected so far
RECURSIVE GetBlobDataLoop_Partial(_, _, _, _, _)
GetBlobDataLoop_Partial(p, transactions, i, blobTxsInPayload, blobDataInPayload) ==
    IF i > Len(transactions)
    THEN GetResult(List(blobTxsInPayload), List(blobDataInPayload), NoError)
    ELSE LET txData == transactions[i]
         IN IF txData.type = Undecodable
            THEN GetResult(NilList, NilList, Errorf("UnmarshalBinary", << >>))
            ELSE IF txData.type # BlobTxType
            THEN GetBlobDataLoop_Partial(p, transactions, i + 1, blobTxsInPayload,
                                         blobDataInPayload)
            ELSE IF txData.hash \in DOMAIN p.Transactions
            THEN LET tx == p.Transactions[txData.hash]
                 IN IF tx.withBlobData
                    THEN IF ~tx.hasBlobData
                         THEN GetResult(NilList, NilList, Errorf("blob data is nil", << >>))
                         ELSE IF InvalidWrapData(tx)
                         THEN GetResult(NilList, NilList,
                                        Errorf("invalid blob wrap data", << >>))
                         ELSE GetBlobDataLoop_Partial(p, transactions, i + 1,
                                                      Append(blobTxsInPayload, tx),
                                                      blobDataInPayload \o WrapDataOf(tx))
                    ELSE GetResult(NilList, NilList,
                                   Errorf("could not find blob data in transaction %s, type=%T",
                                          << IntArg(txData.hash) >>))
            ELSE GetResult(List(blobTxsInPayload), List(blobDataInPayload),
                           Errorf("could not find transaction %s in the pool",
                                  << IntArg(txData.hash) >>))

\* for i, binaryTx := range payload.Transactions { ... }
RECURSIVE GetBlobDataLoop(_, _, _, _, _)
GetBlobDataLoop(p, transactions, i, blobTxsInPayload, blobDataInPayload) ==
    IF i > Len(transactions)
    THEN GetResult(List(blobTxsInPayload), List(blobDataInPayload), NoError)
    ELSE LET txData == transactions[i]
         IN IF txData.type = Undecodable
            THEN GetResult(NilList, NilList, Errorf("UnmarshalBinary", << >>))
            ELSE IF txData.type # BlobTxType
            THEN \* continue
                 GetBlobDataLoop(p, transactions, i + 1, blobTxsInPayload, blobDataInPayload)
            ELSE IF txData.hash \in DOMAIN p.Transactions
            THEN LET tx == p.Transactions[txData.hash]
                 IN IF tx.withBlobData
                    THEN IF ~tx.hasBlobData
                         THEN GetResult(NilList, NilList, Errorf("blob data is nil", << >>))
                         ELSE IF InvalidWrapData(tx)
                         THEN GetResult(NilList, NilList,
                                        Errorf("invalid blob wrap data", << >>))
                         ELSE GetBlobDataLoop(p, transactions, i + 1,
                                              Append(blobTxsInPayload, tx),
                                              blobDataInPayload \o WrapDataOf(tx))
                    ELSE GetResult(NilList, NilList,
                                   Errorf("could not find blob data in transaction %s, type=%T",
                                          << IntArg(txData.hash) >>))
            ELSE GetResult(NilList, NilList,
                           Errorf("could not find transaction %s in the pool",
                                  << IntArg(txData.hash) >>))

\* GetBlobDataInPayload(pool, payload), on the decoded transactions of the
\* payload: blobTxsInPayload and blobDataInPayload start as empty lists
GetBlobData(p, transactions) == GetBlobDataLoop(p, transactions, 1, << >>, << >>)

\* mutant: the proofs are not compared
RECURSIVE VerifyBundleLoop_NoProof(_, _, _)
VerifyBundleLoop_NoProof(blobDataInPayload, blobBundle, i) ==
    IF i > Len(blobDataInPayload) THEN NoError
    ELSE IF blobBundle.Commitments[i] # blobDataInPayload[i].KZG
    THEN Errorf("KZG mismatch at index %d of the bundle", << IntArg(i - 1) >>)
    ELSE IF blobBundle.Blobs[i] # blobDataInPayload[i].Blob
    THEN Errorf("blob mismatch at index %d of the bundle", << IntArg(i - 1) >>)
    ELSE VerifyBundleLoop_NoProof(blobDataInPayload, blobBundle, i + 1)

\* for i, blobData := range blobDataInPayload { ... }; i counts from 1 here,
\* the index the error names is the Go index i - 1
RECURSIVE VerifyBundleLoop(_, _, _)
VerifyBundleLoop(blobDataInPayload, blobBundle, i) ==
    IF i > Len(blobDataInPayload) THEN NoError
    ELSE IF blobBundle.Commitments[i] # blobDataInPayload[i].KZG
    THEN Errorf("KZG mismatch at index %d of the bundle", << IntArg(i - 1) >>)
    ELSE IF blobBundle.Blobs[i] # blobDataInPayload[i].Blob
    THEN Errorf("blob mismatch at index %d of the bundle", << IntArg(i - 1) >>)
    ELSE IF blobBundle.Proofs[i] # blobDataInPayload[i].Proof
    THEN Errorf("proof mismatch at index %d of the bundle", << IntArg(i - 1) >>)
    ELSE VerifyBundleLoop(blobDataInPayload, blobBundle, i + 1)

\* mutant: a listed blob counts as found as soon as the payload has a blob
FindExpected_NoVerify(expectedBlob, blobDataInPayload, i) ==
    IF blobDataInPayload = << >> THEN [found |-> FALSE, err |-> Nil]
    ELSE [found |-> TRUE, err |-> Nil]

\* for _, blobData := range blobDataInPayload { expectedBlob.VerifyBlob(...) }
RECURSIVE FindExpected(_, _, _)
FindExpected(expectedBlob, blobDataInPayload, i) ==
    IF i > Len(blobDataInPayload) THEN [found |-> FALSE, err |-> Nil]
    ELSE LET v == VerifyBlob(expectedBlob, blobDataInPayload[i].Blob)
         IN IF v.err # Nil THEN [found |-> FALSE, err |-> v.err]
            ELSE IF v.ok THEN [found |-> TRUE, err |-> Nil]
            ELSE FindExpected(expectedBlob, blobDataInPayload, i + 1)

\* for _, expectedBlob := range step.ExpectedBlobs { ... }
RECURSIVE ExpectedBlobsLoop(_, _, _)
ExpectedBlobsLoop(ExpectedBlobs, blobDataInPayload, j) ==
    IF j > Len(ExpectedBlobs) THEN NoError
    ELSE LET f == FindExpected(ExpectedBlobs[j], blobDataInPayload, 1)
         IN IF f.err # Nil THEN Errorf(f.err, << >>)
            ELSE IF ~f.found
            THEN Errorf("could not find expected blob %d", << IntArg(ExpectedBlobs[j]) >>)
            ELSE ExpectedBlobsLoop(ExpectedBlobs, blobDataInPayload, j + 1)

\* NewPayloads.VerifyBlobBundle(blobDataInPayload, payload, blobBundle)
VerifyBlobBundle(step, blobDataInPayload, blobBundle) ==
    IF \/ Len(blobBundle.Blobs) # Len(blobBundle.Commitments)
       \/ Len(blobBundle.Blobs) # Len(blobBundle.Proofs)
    THEN Errorf("unexpected length in blob bundle: %d blobs, %d proofs, %d commitments",
                << IntArg(Len(blobBundle.Blobs)), IntArg(Len(blobBundle.Proofs)),
                   IntArg(Len(blobBundle.Commitments)) >>)
    ELSE IF Len(blobBundle.Blobs) # step.ExpectedIncludedBlobCount
    THEN Errorf("expected %d blob, got %d",
                << IntArg(step.ExpectedIncludedBlobCount), IntArg(Len(blobBundle.Blobs)) >>)
    ELSE IF Len(blobDataInPayload) # Len(blobBundle.Blobs)
    THEN Errorf("expected %d blobs in the bundle, got %d",
                << IntArg(Len(blobDataInPayload)), IntArg(Len(blobBundle.Blobs)) >>)
    ELSE LET mismatch == VerifyBundleLoop(blobDataInPayload, blobBundle, 1)
         IN IF mismatch # NoError THEN mismatch
            ELSE IF Len(step.ExpectedBlobs) # 0
            THEN ExpectedBlobsLoop(step.ExpectedBlobs, blobDataInPayload, 1)
            ELSE NoError

-----------------------------------------------------------------------------
(* SpecVerify: GetBlobDataInPayload and VerifyBlobBundle driven over pools, *)
(* payloads and bundles. The pool holds MaxPoolTxs blob transactions, one   *)
(* of them possibly malformed; the payload lists up to MaxPayloadTxs        *)
(* transactions, of the pool, unknown to it, or not blob transactions; the  *)
(* bundle is the one the pool's data gives, or one that differs from it.    *)

MaxPoolTxs == 2
MaxPayloadTxs == 2

PoolHashes == 1..MaxPoolTxs

\* the BlobIDs of the blobs of the transaction with hash h
TxBlobIDs(h) ==
    IF h % 2 = 1 THEN << h % (MaxBlobID + 1) >>
    ELSE << h % (MaxBlobID + 1), (h + 1) % (MaxBlobID + 1) >>

Front(s) == SubSeq(s, 1, Len(s) - 1)

Defects == {"notBlobTx", "nilBlobData", "shortCommitments", "shortBlobs",
            "longProofs", "shortHashes", "wrongHash"}

\* the pool entry of hash h as helper.MakeTransaction builds it from the
\* blobs of TxBlobIDs(h), or with one defect
PoolEntry(h, defect) ==
    LET ids == TxBlobIDs(h)
        n == Len(ids)
        blobs == [i \in 1..n |-> SynthBlob(ids[i])]
        kzgs == [i \in 1..n |-> SampleCommitment(ids[i])]
        proofs == [i \in 1..n |-> SampleProof(ids[i])]
        hashes == [i \in 1..n |-> ComputeVersionedHash(kzgs[i])]
        set == defect \notin {"notBlobTx", "nilBlobData"}
    IN [hash |-> h,
        withBlobData |-> defect # "notBlobTx",
        hasBlobData |-> set,
        Blobs |-> IF ~set THEN << >>
                  ELSE IF defect = "shortBlobs" THEN Front(blobs) ELSE blobs,
        Commitments |-> IF ~set THEN << >>
                        ELSE IF defect = "shortCommitments" THEN Front(kzgs) ELSE kzgs,
        Proofs |-> IF ~set THEN << >>
                   ELSE IF defect = "longProofs" THEN Append(proofs, ZeroProof) ELSE proofs,
        BlobHashes |-> IF defect = "shortHashes" THEN Front(hashes)
                       ELSE IF defect = "wrongHash" THEN [hashes EXCEPT ![n] = ZeroHash]
                       ELSE hashes]

Pools ==
    { [Transactions |-> [h \in PoolHashes |-> PoolEntry(h, IF h = d THEN k ELSE "good")]] :
        d \in PoolHashes, k \in Defects \cup {"good"} }

\* the transactions a payload may hold: blob transactions of the pool, a
\* blob transaction the pool does not know, a transaction of another type,
\* bytes that are no transaction
PayloadTxs ==
    { [type |-> BlobTxType, hash |-> h] : h \in 1..(MaxPoolTxs + 1) }
        \cup { [type |-> "other", hash |-> 0], [type |-> Undecodable, hash |-> 0] }

Payloads == UNION { [1..n -> PayloadTxs] : n \in 0..MaxPayloadTxs }

\* the bundle that holds exactly the data of the payload
BundleOf(data) ==
    [Commitments |-> [i \in 1..Len(data) |-> data[i].KZG],
     Blobs |-> [i \in 1..Len(data) |-> data[i].Blob],
     Proofs |-> [i \in 1..Len(data) |-> data[i].Proof]]

FlipByte(b) == [b EXCEPT ![Len(b)] = (@ + 1) % 256]

Swap(s) == IF Len(s) < 2 THEN s ELSE [s EXCEPT ![1] = s[2], ![2] = s[1]]

Tampers == {"none", "noProof", "shorter", "longer", "kzgFirst", "kzgLast",
            "blobLast", "proofLast", "swap"}

\* a bundle of the client that differs from bundle b in one way
Tamper(b, t) ==
    LET n == Len(b.Blobs)
    IN IF t = "longer"
       THEN [Commitments |-> Append(b.Commitments, ZeroCommitment),
             Blobs |-> Append(b.Blobs, ZeroBlob),
             Proofs |-> Append(b.Proofs, ZeroProof)]
       ELSE IF n = 0 \/ t = "none" THEN b
       ELSE IF t = "noProof" THEN [b EXCEPT !.Proofs = Front(@)]
       ELSE IF t = "shorter"
       THEN [Commitments |-> Front(b.Commitments), Blobs |-> Front(b.Blobs),
             Proofs |-> Front(b.Proofs)]
       ELSE IF t = "kzgFirst" THEN [b EXCEPT !.Commitments[1] = ZeroCommitment]
       ELSE IF t = "kzgLast" THEN [b EXCEPT !.Commitments[n] = ZeroCommitment]
       ELSE IF t = "blobLast" THEN [b EXCEPT !.Blobs[n] = FlipByte(@)]
       ELSE IF t = "proofLast" THEN [b EXCEPT !.Proofs[n] = ZeroProof]
       ELSE [Commitments |-> Swap(b.Commitments), Blobs |-> Swap(b.Blobs),
             Proofs |-> Swap(b.Proofs)]

\* the lists of expected BlobIDs a step declares
ExpectedChoices ==
    { << >>, << 1, 2 >>, << 2, 1 >> } \cup { << k >> : k \in BlobIDs }

NoGet == GetResult(NilList, NilList, Errorf("not called", << >>))
NoStep == [ExpectedIncludedBlobCount |-> 0, ExpectedBlobs |-> << >>]
NoBundle == [Commitments |-> << >>, Blobs |-> << >>, Proofs |-> << >>]

InitVerify ==
    /\ sha = SampleSha
    /\ vPool \in Pools
    /\ vPayload \in Payloads
    /\ vOp = "init"
    /\ vGot = NoGet
    /\ vStep = NoStep
    /\ vBundle = NoBundle
    /\ vErr = NoError

\* GetBlobDataInPayload(t.TestBlobTxPool, payload) in OnGetPayload
DoGetBlobDataInPayload ==
    /\ vOp = "init"
    /\ vGot' = GetBlobData(vPool, vPayload)
    /\ vOp' = "got"
    /\ UNCHANGED <<vPool, vPayload, vStep, vBundle, vErr>>
    /\ UNCHANGED <<blobVars, commitVars, stepVars, ctxVars, utilVars>>

\* step.VerifyBlobBundle(blobDataInPayload, payload, blobBundle), reached
\* when GetBlobDataInPayload returned no error
DoVerifyBlobBundle ==
    /\ vOp = "got"
    /\ vGot.err = NoError
    /\ \E t \in Tampers, extra \in {0, 1}, expected \in ExpectedChoices :
          /\ vBundle' = Tamper(BundleOf(vGot.data.elems), t)
          /\ vStep' = [ExpectedIncludedBlobCount |-> Len(vGot.data.elems) + extra,
                       ExpectedBlobs |-> expected]
    /\ vErr' = VerifyBlobBundle(vStep', vGot.data.elems, vBundle')
    /\ vOp' = "verified"
    /\ UNCHANGED <<vPool, vPayload, vGot>>
    /\ UNCHANGED <<blobVars, commitVars, stepVars, ctxVars, utilVars>>

NextVerify == DoGetBlobDataInPayload \/ DoVerifyBlobBundle

IdleVer ==
    /\ vPool = [Transactions |-> << >>]
    /\ vPayload = << >>
    /\ vOp = "idle"
    /\ vGot = NoGet
    /\ vStep = NoStep
    /\ vBundle = NoBundle
    /\ vErr = NoError

-----------------------------------------------------------------------------
(* helper/blobs.go: GetBlobList, GetBlobListByIndex. BlobID and the counts  *)
(* are uint64; the model keeps the wrap-around of unsigned arithmetic with  *)
(* MaxUint in the place of 2^64 - 1.                                        *)

MaxUint == 7
MaxListLen == 3

Uints == 0..MaxUint

\* the value of an unsigned expression
Uint(n) == n % (MaxUint + 1)

\* make(BlobIDs, count)
MakeBlobIDs(count) == [k \in 1..count |-> 0]

\* mutant: the loop starts at index 1
GetBlobListLoop_SkipFirst(startId, count, i, blobList) ==
    [k \in 1..count |-> IF k = 1 THEN 0 ELSE Uint(startId + (k - 1))]

\* for i := uint64(0); i < count; i++ { blobList[i] = startId + BlobID(i) }
RECURSIVE GetBlobListLoop(_, _, _, _)
GetBlobListLoop(startId, count, i, blobList) ==
    IF i < count
    THEN GetBlobListLoop(startId, count, i + 1,
                         [blobList EXCEPT ![i + 1] = Uint(startId + i)])
    ELSE blobList

GetBlobList(startId, count) ==
    GetBlobListLoop(startId, count, 0, MakeBlobIDs(count))

\* for i := uint64(0); i < count; i++ { blobList[i] = endIndex - BlobID(i) }
RECURSIVE DescendingLoop(_, _, _, _)
DescendingLoop(endIndex, count, i, blobList) ==
    IF i < count
    THEN DescendingLoop(endIndex, count, i + 1,
                        [blobList EXCEPT ![i + 1] = Uint(endIndex - i)])
    ELSE blobList

GetBlobListByIndex(startIndex, endIndex) ==
    LET count == IF endIndex > startIndex
                 THEN Uint(endIndex - startIndex + 1)
                 ELSE Uint(startIndex - endIndex + 1)
    IN IF endIndex > startIndex
       THEN GetBlobListLoop(startIndex, count, 0, MakeBlobIDs(count))
       ELSE DescendingLoop(endIndex, count, 0, MakeBlobIDs(count))

(* SpecList: the two functions called on every pair of arguments *)

InitList ==
    /\ lIn \in Uints \X Uints
    /\ lOp = "init"
    /\ lOut = << >>

\* GetBlobList(startId, count); a list of up to MaxListLen identifiers
DoGetBlobList ==
    /\ lOp = "init"
    /\ lIn[2] <= MaxListLen
    /\ lOut' = GetBlobList(lIn[1], lIn[2])
    /\ lOp' = "GetBlobList"
    /\ UNCHANGED <<lIn, coreVars, forkVars, payVars, txVars>>

DoGetBlobListByIndex ==
    /\ lOp = "init"
    /\ lOut' = GetBlobListByIndex(lIn[1], lIn[2])
    /\ lOp' = "GetBlobListByIndex"
    /\ UNCHANGED <<lIn, coreVars, forkVars, payVars, txVars>>

NextList == DoGetBlobList \/ DoGetBlobListByIndex

IdleList ==
    /\ lIn = << 0, 0 >>
    /\ lOp = "idle"
    /\ lOut = << >>

-----------------------------------------------------------------------------
(* config: ForkConfig. A pointer to a timestamp is << >> when nil and <<t>> *)
(* when it points to t; a block timestamp is a number.                      *)

MaxTimestamp == 3

Timestamps == 0..MaxTimestamp

NilTimestamp == << >>

TimestampPointers == {NilTimestamp} \cup { << t >> : t \in Timestamps }

ForkConfigs ==
    [ShanghaiTimestamp : TimestampPointers,
     CancunTimestamp : TimestampPointers,
     PragueTimestamp : TimestampPointers]

IsShanghai(f, blockTimestamp) ==
    f.ShanghaiTimestamp # NilTimestamp /\ blockTimestamp >= f.ShanghaiTimestamp[1]

IsCancun(f, blockTimestamp) ==
    f.CancunTimestamp # NilTimestamp /\ blockTimestamp >= f.CancunTimestamp[1]

IsPrague(f, blockTimestamp) ==
    f.PragueTimestamp # NilTimestamp /\ blockTimestamp >= f.PragueTimestamp[1]

\* mutant: the head timestamp is used also when a payload attributes
\* timestamp is given
ForkchoiceUpdatedVersion_Head(f, headTimestamp, payloadAttributesTimestamp) ==
    IF IsCancun(f, headTimestamp) \/ IsPrague(f, headTimestamp) THEN 3
    ELSE IF IsShanghai(f, headTimestamp) THEN 2
    ELSE 1

ForkchoiceUpdatedVersion(f, headTimestamp, payloadAttributesTimestamp) ==
    LET timestamp == IF payloadAttributesTimestamp # NilTimestamp
                     THEN payloadAttributesTimestamp[1]
                     ELSE headTimestamp
    IN IF IsCancun(f, timestamp) \/ IsPrague(f, timestamp) THEN 3
       ELSE IF IsShanghai(f, timestamp) THEN 2
       ELSE 1

\* mutant: Cancun is tested before Prague
GetPayloadVersion_CancunFirst(f, timestamp) ==
    IF IsCancun(f, timestamp) THEN 3
    ELSE IF IsPrague(f, timestamp) THEN 4
    ELSE IF IsShanghai(f, timestamp) THEN 2
    ELSE 1

GetPayloadVersion(f, timestamp) ==
    IF IsPrague(f, timestamp) THEN 4
    ELSE IF IsCancun(f, timestamp) THEN 3
    ELSE IF IsShanghai(f, timestamp) THEN 2
    ELSE 1

NewPayloadVersion(f, timestamp) == GetPayloadVersion(f, timestamp)

(* SpecFork: the version functions called on every configuration and timestamp *)

InitFork ==
    /\ forkConfig \in ForkConfigs
    /\ fIn \in Timestamps \X TimestampPointers
    /\ fOp = "init"
    /\ fOut = 0

DoForkchoiceUpdatedVersion ==
    /\ fOp = "init"
    /\ fOut' = ForkchoiceUpdatedVersion(forkConfig, fIn[1], fIn[2])
    /\ fOp' = "ForkchoiceUpdatedVersion"
    /\ UNCHANGED <<forkConfig, fIn, coreVars, listVars, payVars, txVars>>

\* the functions of one timestamp are called on the first component of fIn
DoNewPayloadVersion ==
    /\ fOp = "init"
    /\ fIn[2] = NilTimestamp
    /\ fOut' = NewPayloadVersion(forkConfig, fIn[1])
    /\ fOp' = "NewPayloadVersion"
    /\ UNCHANGED <<forkConfig, fIn, coreVars, listVars, payVars, txVars>>

DoGetPayloadVersion ==
    /\ fOp = "init"
    /\ fIn[2] = NilTimestamp
    /\ fOut' = GetPayloadVersion(forkConfig, fIn[1])
    /\ fOp' = "GetPayloadVersion"
    /\ UNCHANGED <<forkConfig, fIn, coreVars, listVars, payVars, txVars>>

NextFork == DoForkchoiceUpdatedVersion \/ DoNewPayloadVersion \/ DoGetPayloadVersion

IdleFork ==
    /\ forkConfig = [ShanghaiTimestamp |-> NilTimestamp, CancunTimestamp |-> NilTimestamp,
                     PragueTimestamp |-> NilTimestamp]
    /\ fIn = << 0, NilTimestamp >>
    /\ fOp = "idle"
    /\ fOut = 0

-----------------------------------------------------------------------------
(* suites/blobs/steps.go: NewPayloads.Execute and NewPayloads.VerifyPayload. *)
(* A payload is its Timestamp, its ExcessDataGas and DataGasUsed (pointers: *)
(* << >> when nil, <<v>> otherwise) and blobTxs, the number of blob hashes  *)
(* of each of its blob transactions that GetBlobDataInPayload finds in the  *)
(* pool. Gas is counted in units of GAS_PER_BLOB.                           *)

MaxPayloads == 2
TargetBlobGas == 1

NilUint == << >>

RECURSIVE SumSeq(_)
SumSeq(s) == IF s = << >> THEN 0 ELSE Head(s) + SumSeq(Tail(s))

\* the excess-blob-gas recurrence of the protocol
CalcExcessDataGas(parentExcessDataGas, parentDataGasUsed) ==
    IF parentExcessDataGas + parentDataGasUsed < TargetBlobGas
    THEN 0
    ELSE parentExcessDataGas + parentDataGasUsed - TargetBlobGas

\* mutant: the blob gas the previous payload used is left out
ExpectedExcessDataGas_ExcessOnly(previous) ==
    CalcExcessDataGas(IF previous.ExcessDataGas # NilUint
                      THEN previous.ExcessDataGas[1] ELSE 0, 0)

\* expectedExcessDataGas of VerifyPayload; previousPayload is never nil here,
\* Execute passes the address of its local variable
ExpectedExcessDataGas(previous) ==
    LET parentExcessDataGas == IF previous.ExcessDataGas # NilUint
                               THEN previous.ExcessDataGas[1] ELSE 0
        parentDataGasUsed == IF previous.DataGasUsed # NilUint
                             THEN previous.DataGasUsed[1] ELSE 0
    IN CalcExcessDataGas(parentExcessDataGas, parentDataGasUsed)

\* mutant: before the fork only the excessDataGas field is looked at
PreForkCheck_ExcessOnly(payload) ==
    IF payload.ExcessDataGas # NilUint
    THEN Errorf("payload contains non-nil excessDataGas pre-fork", << >>)
    ELSE NoError

\* the else branch of VerifyPayload
PreForkCheck(payload) ==
    IF payload.ExcessDataGas # NilUint
    THEN Errorf("payload contains non-nil excessDataGas pre-fork", << >>)
    ELSE IF payload.DataGasUsed # NilUint
    THEN Errorf("payload contains non-nil dataGasUsed pre-fork", << >>)
    ELSE NoError

\* the checks of the blob gas fields when the fork is active
FieldsCheck(payload, expectedExcessDataGas) ==
    IF payload.ExcessDataGas = NilUint
    THEN Errorf("payload contains nil excessDataGas", << >>)
    ELSE IF payload.DataGasUsed = NilUint
    THEN Errorf("payload contains nil dataGasUsed", << >>)
    ELSE IF payload.ExcessDataGas[1] # expectedExcessDataGas
    THEN Errorf("payload contains incorrect excessDataGas: want 0x%x, have 0x%x",
                << IntArg(expectedExcessDataGas), IntArg(payload.ExcessDataGas[1]) >>)
    ELSE NoError

\* VerifyPayload reaches the receipt of a blob transaction
ReachesReceipts(f, payload, previous) ==
    /\ IsCancun(f, payload.Timestamp)
    /\ FieldsCheck(payload, ExpectedExcessDataGas(previous)) = NoError
    /\ payload.blobTxs # << >>

\* the error VerifyPayload returns when the receipts are the expected ones
VerifyPayload(step, f, payload, previous) ==
    LET expectedExcessDataGas == ExpectedExcessDataGas(previous)
    IN IF IsCancun(f, payload.Timestamp)
       THEN LET fields == FieldsCheck(payload, expectedExcessDataGas)
                totalBlobCount == SumSeq(payload.blobTxs)
            IN IF fields # NoError THEN fields
               ELSE IF totalBlobCount # step.ExpectedIncludedBlobCount
               THEN Errorf("expected %d blobs in transactions, got %d",
                           << IntArg(step.ExpectedIncludedBlobCount),
                              IntArg(totalBlobCount) >>)
               ELSE NoError
       ELSE PreForkCheck(payload)

\* version := step.Version; if version == 0 { ... }
SubmitVersion(step, f, payload) ==
    IF step.Version = 0
    THEN IF IsCancun(f, payload.Timestamp) THEN 3 ELSE 2
    ELSE step.Version

(* SpecPayload: one NewPayloads step run against a client that builds any   *)
(* payload.                                                                 *)

GasPointers == {NilUint} \cup { << v >> : v \in 0..(TargetBlobGas + 1) }

Payload(timestamp, excessDataGas, dataGasUsed, blobTxs) ==
    [Timestamp |-> timestamp, ExcessDataGas |-> excessDataGas,
     DataGasUsed |-> dataGasUsed, blobTxs |-> blobTxs]

\* the payloads the client may build at a timestamp
BuiltPayloads(timestamp) ==
    { Payload(timestamp, e, u, b) :
        e \in GasPointers, u \in {NilUint, << 0 >>, << TargetBlobGas + 1 >>},
        b \in {<< >>, << 1 >>} }

\* the configurations of the run: Shanghai from genesis or never, Cancun
\* never or from the first or second payload, Prague never or with Cancun
PayloadForkConfigs ==
    { f \in ForkConfigs :
        /\ f.ShanghaiTimestamp \in {NilTimestamp, << 0 >>}
        /\ f.CancunTimestamp \in {NilTimestamp, << 1 >>, << 2 >>}
        /\ f.PragueTimestamp \in {NilTimestamp, f.CancunTimestamp} }

NewPayloadsSteps ==
    [PayloadCount : {0, MaxPayloads}, Version : 0..3,
     ExpectedIncludedBlobCount : {0, 1}, GetPayloadDelay : {0, 2}]

\* mutant: a PayloadCount of 0 is no cycle
GetPayloadCount_Raw(step) == step.PayloadCount

\* NewPayloads.GetPayloadCount
GetPayloadCount(step) == IF step.PayloadCount = 0 THEN 1 ELSE step.PayloadCount

\* mutant: the delay is restored whether it was overridden or not
RestoredDelay_Always(step, current, original) == original

\* if step.GetPayloadDelay != 0 { t.CLMock.PayloadProductionClientDelay =
\* originalGetPayloadDelay }: the delay of the CL mock after the loop
RestoredDelay(step, current, original) ==
    IF step.GetPayloadDelay # 0 THEN original ELSE current

InitPayload ==
    /\ forkConfig \in PayloadForkConfigs
    /\ npStep \in NewPayloadsSteps
    /\ latestPayloadBuilt \in
          { Payload(0, e, u, << >>) :
              e \in {NilUint, << TargetBlobGas >>}, u \in {NilUint, << TargetBlobGas >>} }
    /\ previousPayload = Payload(0, NilUint, NilUint, << >>)
    /\ built = << latestPayloadBuilt >>
    /\ npP = 0
    /\ npPc = "start"
    /\ npVersion = 0
    /\ npVerified = FALSE
    /\ npErr = NoError
    /\ payloadDelay \in {0, 1}
    /\ originalGetPayloadDelay = 0
    /\ delayBefore = payloadDelay

\* payloadCount := step.GetPayloadCount(); the delay of the CL mock is kept
\* and overridden when step.GetPayloadDelay != 0;
\* previousPayload = t.CLMock.LatestPayloadBuilt
ExecStart ==
    /\ npPc = "start"
    /\ IF npStep.GetPayloadDelay # 0
       THEN /\ originalGetPayloadDelay' = payloadDelay
            /\ payloadDelay' = npStep.GetPayloadDelay
       ELSE UNCHANGED <<payloadDelay, originalGetPayloadDelay>>
    /\ previousPayload' = latestPayloadBuilt
    /\ npPc' = "loop"
    /\ UNCHANGED <<npStep, latestPayloadBuilt, built, npP, npVersion, npVerified, npErr,
                   delayBefore>>
    /\ UNCHANGED <<coreVars, listVars, forkVars, txVars>>

\* the loop test, and t.CLMock.ProduceSingleBlock up to the built payload;
\* after the loop the delay is restored and the step returns nil
ExecProduce ==
    /\ npPc = "loop"
    /\ IF npP < GetPayloadCount(npStep)
       THEN /\ latestPayloadBuilt' \in BuiltPayloads(latestPayloadBuilt.Timestamp + 1)
            /\ built' = Append(built, latestPayloadBuilt')
            /\ npPc' = "onGetPayload"
            /\ UNCHANGED payloadDelay
       ELSE /\ npPc' = "done"
            /\ payloadDelay' = RestoredDelay(npStep, payloadDelay, originalGetPayloadDelay)
            /\ UNCHANGED <<latestPayloadBuilt, built>>
    /\ npVersion' = 0
    /\ npVerified' = FALSE
    /\ UNCHANGED <<npStep, previousPayload, npP, npErr, originalGetPayloadDelay, delayBefore>>
    /\ UNCHANGED <<coreVars, listVars, forkVars, txVars>>

\* OnGetPayload: nothing to do before the fork; after it the bundle is
\* cross-validated, t.Fatalf on an error
ExecOnGetPayload ==
    /\ npPc = "onGetPayload"
    /\ \/ npPc' = "onNewPayload"
       \/ /\ IsCancun(forkConfig, latestPayloadBuilt.Timestamp)
          /\ npPc' = "failed"
    /\ UNCHANGED <<npStep, latestPayloadBuilt, previousPayload, built, npP, npVersion,
                   npVerified, npErr, delayVars>>
    /\ UNCHANGED <<coreVars, listVars, forkVars, txVars>>

\* OnNewPayloadBroadcast: the payload is submitted with the version of the
\* step or the one chosen from the fork; t.Fatalf on an unknown version and
\* on a response that is not the expected one
ExecOnNewPayloadBroadcast ==
    /\ npPc = "onNewPayload"
    /\ npVersion' = SubmitVersion(npStep, forkConfig, latestPayloadBuilt)
    /\ IF npVersion' \in {2, 3}
       THEN npPc' \in {"onForkchoice", "failed"}
       ELSE npPc' = "failed"
    /\ UNCHANGED <<npStep, latestPayloadBuilt, previousPayload, built, npP, npVerified,
                   npErr, delayVars>>
    /\ UNCHANGED <<coreVars, listVars, forkVars, txVars>>

\* OnForkchoiceBroadcast: t.Fatalf when GetBlobDataInPayload fails, when a
\* receipt is not the expected one and when VerifyPayload returns an error;
\* else previousPayload = t.CLMock.LatestPayloadBuilt and the next cycle
ExecOnForkchoiceBroadcast ==
    /\ npPc = "onForkchoice"
    /\ \/ /\ npPc' = "failed"
          /\ UNCHANGED <<previousPayload, npP, npVerified, npErr>>
       \/ /\ ReachesReceipts(forkConfig, latestPayloadBuilt, previousPayload)
          /\ npPc' = "failed"
          /\ UNCHANGED <<previousPayload, npP, npVerified, npErr>>
       \/ /\ npErr' = VerifyPayload(npStep, forkConfig, latestPayloadBuilt, previousPayload)
          /\ npVerified' = TRUE
          /\ IF npErr' # NoError
             THEN /\ npPc' = "failed"
                  /\ UNCHANGED <<previousPayload, npP>>
             ELSE /\ previousPayload' = latestPayloadBuilt
                  /\ npP' = npP + 1
                  /\ npPc' = "loop"
    /\ UNCHANGED <<npStep, latestPayloadBuilt, built, npVersion, delayVars>>
    /\ UNCHANGED <<coreVars, listVars, forkVars, txVars>>

NextPayload ==
    \/ ExecStart
    \/ ExecProduce
    \/ ExecOnGetPayload
    \/ ExecOnNewPayloadBroadcast
    \/ ExecOnForkchoiceBroadcast

IdlePayload ==
    /\ npStep = [PayloadCount |-> 0, Version |-> 0, ExpectedIncludedBlobCount |-> 0,
                 GetPayloadDelay |-> 0]
    /\ payloadDelay = 0
    /\ originalGetPayloadDelay = 0
    /\ delayBefore = 0
    /\ latestPayloadBuilt = Payload(0, NilUint, NilUint, << >>)
    /\ previousPayload = Payload(0, NilUint, NilUint, << >>)
    /\ built = << >>
    /\ npP = 0
    /\ npPc = "idle"
    /\ npVersion = 0
    /\ npVerified = FALSE
    /\ npErr = NoError

-----------------------------------------------------------------------------
(* helper/blobs.go: BlobTransactionCreator.MakeTransaction. Of the creator  *)
(* the model keeps To (<< >> when nil), BlobID, BlobCount and PrivateKey    *)
(* ("nil", or whether types.SignNewTx accepts it); of the transaction its   *)
(* BlobHashes and its BlobData.                                             *)

NilAddress == << >>

NilTransaction == [nil |-> TRUE, BlobHashes |-> NilList, BlobData |-> NilBlobData]

MakeResult(tx, err) == [tx |-> tx, err |-> err]

\* mutant: the transaction is built without its blob hashes
MakeTransaction_NoHashes(tc, nonce) ==
    LET gen == BlobDataGenerator(tc.BlobID, tc.BlobCount)
    IN IF gen.err # NoError THEN MakeResult(NilTransaction, gen.err)
       ELSE IF tc.To = NilAddress
       THEN MakeResult(NilTransaction, Errorf("nil to address", << >>))
       ELSE IF tc.PrivateKey = "invalid"
       THEN MakeResult(NilTransaction, Errorf("SignNewTx", << >>))
       ELSE MakeResult([nil |-> FALSE, BlobHashes |-> NilList,
                        BlobData |-> gen.blobData], NoError)

\* mutant: a missing destination address is not an error
MakeTransaction_NoAddressCheck(tc, nonce) ==
    LET gen == BlobDataGenerator(tc.BlobID, tc.BlobCount)
    IN IF gen.err # NoError THEN MakeResult(NilTransaction, gen.err)
       ELSE IF tc.PrivateKey = "invalid"
       THEN MakeResult(NilTransaction, Errorf("SignNewTx", << >>))
       ELSE MakeResult([nil |-> FALSE, BlobHashes |-> gen.hashes,
                        BlobData |-> gen.blobData], NoError)

\* tc.MakeTransaction(nonce): (typ.Transaction, error)
MakeTransaction(tc, nonce) ==
    LET gen == BlobDataGenerator(tc.BlobID, tc.BlobCount)
    IN IF gen.err # NoError THEN MakeResult(NilTransaction, gen.err)
       ELSE IF tc.To = NilAddress
       THEN MakeResult(NilTransaction, Errorf("nil to address", << >>))
       \* key := tc.PrivateKey, globals.VaultKey when nil; types.SignNewTx
       ELSE IF tc.PrivateKey = "invalid"
       THEN MakeResult(NilTransaction, Errorf("SignNewTx", << >>))
       ELSE MakeResult([nil |-> FALSE, BlobHashes |-> gen.hashes,
                        BlobData |-> gen.blobData], NoError)

(* SpecTx: MakeTransaction called on every creator, over the opaque         *)
(* capability of SpecCommit                                                 *)

Creators ==
    { c \in [To : {NilAddress, << 1 >>}, BlobID : BlobIDs, BlobCount : 0..MaxBlobs,
             PrivateKey : {"nil", "valid", "invalid"}] :
        c.BlobID + c.BlobCount - 1 <= MaxBlobID }

NoCreator == [To |-> NilAddress, BlobID |-> 0, BlobCount |-> 0, PrivateKey |-> "nil"]

InitTx ==
    /\ txCreator = NoCreator
    /\ txOp = "init"
    /\ txOut = MakeResult(NilTransaction, Errorf("not called", << >>))

DoMakeTransaction ==
    /\ txOp = "init"
    /\ txCreator' \in Creators
    /\ txOut' = MakeTransaction(txCreator', 0)
    /\ txOp' = "made"
    /\ UNCHANGED <<coreVars, listVars, forkVars, payVars>>

NextTx == DoMakeTransaction

IdleTx ==
    /\ txCreator = NoCreator
    /\ txOp = "idle"
    /\ txOut = MakeResult(NilTransaction, Errorf("not called", << >>))

-----------------------------------------------------------------------------
(* types/blobs.go: Blob.MarshalText, Blob.UnmarshalText                     *)
(* A text is the sequence of its characters, each the number of its byte.   *)

\* hextable of encoding/hex: "0123456789abcdef"
HexChar(n) == IF n < 10 THEN 48 + n ELSE 87 + n

\* reverseHexTable of encoding/hex: digits, a-f and A-F; 255 for the rest
FromHexChar(c) ==
    IF c >= 48 /\ c <= 57 THEN c - 48
    ELSE IF c >= 97 /\ c <= 102 THEN c - 87
    ELSE IF c >= 65 /\ c <= 70 THEN c - 55
    ELSE 255

\* hex.Encode(dst, src): two characters per byte, high nibble first
HexEncode(bytes) ==
    [i \in 1..(2 * Len(bytes)) |->
        IF i % 2 = 1 THEN HexChar(bytes[(i + 1) \div 2] \div 16)
        ELSE HexChar(bytes[i \div 2] % 16)]

\* mutant: the prefix is left out of the text
MarshalText_NoPrefix(b) == HexEncode(b)

\* blob.MarshalText(): "0x" and the hex digits of the bytes
MarshalText(b) == << 48, 120 >> \o HexEncode(b)

\* hex.Decode(dst, src): the loop (for ; j < len(src); j += 2) writes
\* dst[i] from the characters 2i and 2i+1 and stops with InvalidByteError at
\* the first pair holding a character that is no hex digit; n is the number
\* of bytes written, the bytes from n on are left as they were
HexDecode(dst, text) ==
    LET pairs == Len(text) \div 2
        bad == { i \in 0..(pairs - 1) :
                    \/ FromHexChar(text[(2 * i) + 1]) > 15
                    \/ FromHexChar(text[(2 * i) + 2]) > 15 }
        n == IF bad = {} THEN pairs ELSE CHOOSE i \in bad : \A k \in bad : i <= k
    IN [dst |-> [i \in 1..Len(dst) |->
                    IF i <= n
                    THEN (FromHexChar(text[(2 * i) - 1]) * 16) + FromHexChar(text[2 * i])
                    ELSE dst[i]],
        n |-> n,
        err |-> IF bad # {} THEN "InvalidByteError"
                ELSE IF Len(text) % 2 = 0 THEN Nil
                ELSE IF FromHexChar(text[Len(text)]) > 15 THEN "InvalidByteError"
                ELSE "ErrLength"]

\* text[2:]
From2(text) == SubSeq(text, 3, Len(text))

\* mutant: the text is decoded before its length and prefix are looked at
UnmarshalText_DecodeFirst(b, text) ==
    IF b = NilBlob
    THEN [blob |-> b, err |-> Errorf("cannot decode text into nil Blob", << >>)]
    ELSE LET l == 2 + (FieldElementsPerBlob * 32 * 2)
             d == HexDecode(b, SubSeq(text, 3, IF Len(text) < l THEN Len(text) ELSE l))
         IN IF Len(text) # l
            THEN [blob |-> d.dst,
                  err |-> Errorf("expected %d characters but got %d",
                                 << IntArg(l), IntArg(Len(text)) >>)]
            ELSE IF ~(text[1] = 48 /\ text[2] = 120)
            THEN [blob |-> d.dst, err |-> Errorf("expected '0x' prefix in Blob string", << >>)]
            ELSE IF d.err # Nil
                 THEN [blob |-> d.dst,
                       err |-> Errorf("blob is not formatted correctly: %v", << d.err >>)]
                 ELSE [blob |-> d.dst, err |-> NoError]

\* blob.UnmarshalText(text): the bytes of *blob after the call, and the error
UnmarshalText(b, text) ==
    IF b = NilBlob
    THEN [blob |-> b, err |-> Errorf("cannot decode text into nil Blob", << >>)]
    ELSE LET l == 2 + (FieldElementsPerBlob * 32 * 2)
         IN IF Len(text) # l
            THEN [blob |-> b,
                  err |-> Errorf("expected %d characters but got %d",
                                 << IntArg(l), IntArg(Len(text)) >>)]
            ELSE IF ~(text[1] = 48 /\ text[2] = 120)
            THEN [blob |-> b, err |-> Errorf("expected '0x' prefix in Blob string", << >>)]
            ELSE LET d == HexDecode(b, From2(text))
                 IN IF d.err # Nil
                    THEN [blob |-> d.dst,
                          err |-> Errorf("blob is not formatted correctly: %v", << d.err >>)]
                    ELSE [blob |-> d.dst, err |-> NoError]

---- (* SpecText: a blob is encoded, the text may be damaged, and decoded *)

\* blobs of different content: all zero, all 0xff, and two of mixed bytes
TextBlobs ==
    { [j \in 1..BlobLen |-> ((j * m) + c) % 256] : m \in {0, 37}, c \in {0, 255} }

\* the characters a damaged text gets: digits of both cases, 'x', and
\* characters that are no hex digit
DamageChars == {48, 120, 70, 102, 103, 32}

\* the texts one change away from text: one character replaced, characters
\* cut off at the end, characters added at the end
Damaged(text) ==
    { [text EXCEPT ![j] = c] : j \in 1..Len(text), c \in DamageChars }
    \cup { SubSeq(text, 1, n) : n \in {0, 1, 2, Len(text) - 2, Len(text) - 1} }
    \cup { text \o << 48 >>, text \o << 48, 48 >> }

InitText ==
    /\ tSrc \in TextBlobs
    /\ tText = << >>
    /\ tKind = "none"
    /\ tBlob \in {NilBlob, ZeroBlob, [j \in 1..BlobLen |-> 170]}
    /\ tOld = tBlob
    /\ tOp = "init"
    /\ tErr = NoError

\* text, _ := src.MarshalText()
DoMarshalText ==
    /\ tOp = "init"
    /\ tText' = MarshalText(tSrc)
    /\ tKind' = "marshalled"
    /\ tOp' = "text"
    /\ UNCHANGED <<tSrc, tBlob, tOld, tErr>>
    /\ UNCHANGED <<baseVars, hashVars, clientVars>>

\* the text comes from outside: it may differ from what MarshalText wrote
DoDamage ==
    /\ tOp = "text"
    /\ tKind = "marshalled"
    /\ \E text \in Damaged(tText) \ {tText} : tText' = text
    /\ tKind' = "damaged"
    /\ UNCHANGED <<tSrc, tBlob, tOld, tOp, tErr>>
    /\ UNCHANGED <<baseVars, hashVars, clientVars>>

\* err := blob.UnmarshalText(text)
DoUnmarshalText ==
    /\ tOp = "text"
    /\ LET r == UnmarshalText(tBlob, tText)
       IN /\ tBlob' = r.blob
          /\ tErr' = r.err
    /\ tOld' = tBlob
    /\ tOp' = "decoded"
    /\ UNCHANGED <<tSrc, tText, tKind>>
    /\ UNCHANGED <<baseVars, hashVars, clientVars>>

NextText == DoMarshalText \/ DoDamage \/ DoUnmarshalText

IdleText ==
    /\ tSrc = NilBlob
    /\ tText = << >>
    /\ tKind = "none"
    /\ tBlob = NilBlob
    /\ tOld = NilBlob
    /\ tOp = "idle"
    /\ tErr = NoError

-----------------------------------------------------------------------------
(* helper/blobs.go: BlobID.GetVersionedHash; types/blobs.go:                *)
(* BlobsBundle.VersionedHashes; steps.go: VersionedHashes.VersionedHashes   *)

\* mutant: the version byte is put in front of the whole digest
VersionAndTail_Whole(commitmentVersion, sha256Hash) ==
    [i \in 1..32 |-> IF i = 1 THEN commitmentVersion ELSE sha256Hash[i - 1]]

\* common.BytesToHash(append([]byte{commitmentVersion}, sha256Hash[1:]...))
VersionAndTail(commitmentVersion, sha256Hash) ==
    [i \in 1..32 |-> IF i = 1 THEN commitmentVersion ELSE sha256Hash[i]]

\* blobId.GetVersionedHash(commitmentVersion): (common.Hash, error)
GetVersionedHash(id, commitmentVersion) ==
    LET g == GenerateBlob(id)
    IN IF g.err # NoError
       THEN [hash |-> ZeroHash, err |-> Wrap(g.err, "GetVersionedHash")]
       ELSE [hash |-> VersionAndTail(commitmentVersion, sha256(g.commitment)),
             err |-> NoError]

\* a *BlobsBundle: nil, or its Commitments (a nil or non-nil list)
NilBundle == [nil |-> TRUE, Commitments |-> NilList]
Bundle(commitments) == [nil |-> FALSE, Commitments |-> commitments]

\* bb.VersionedHashes(commitmentVersion): (*[]common.Hash, error)
BundleVersionedHashes(bb, commitmentVersion) ==
    IF bb.nil THEN [hashes |-> NilList, err |-> Errorf("nil blob bundle", << >>)]
    ELSE IF bb.Commitments.nil
    THEN [hashes |-> NilList, err |-> Errorf("nil commitments", << >>)]
    ELSE [hashes |-> List([i \in 1..Len(bb.Commitments.elems) |->
                             VersionAndTail(commitmentVersion,
                                            sha256(bb.Commitments.elems[i]))]),
          err |-> NoError]

\* the version of entry i (from 0) of a VersionedHashes override:
\* var version byte; if v.HashVersions != nil && len(v.HashVersions) > i {...}
OverrideVersion(v, i) ==
    IF ~v.HashVersions.nil /\ Len(v.HashVersions.elems) > i
    THEN v.HashVersions.elems[i + 1]
    ELSE 0

\* the loop of VersionedHashes.VersionedHashes (for i, blobID := range v.Blobs)
RECURSIVE VersionedHashesLoop(_, _, _)
VersionedHashesLoop(v, i, versionedHashes) ==
    IF i >= Len(v.Blobs.elems)
    THEN [hashes |-> List(versionedHashes), err |-> NoError]
    ELSE LET h == GetVersionedHash(v.Blobs.elems[i + 1], OverrideVersion(v, i))
         IN IF h.err # NoError THEN [hashes |-> NilList, err |-> h.err]
            ELSE VersionedHashesLoop(v, i + 1, [versionedHashes EXCEPT ![i + 1] = h.hash])

\* v.VersionedHashes(): ([]common.Hash, error)
VersionedHashes(v) ==
    IF v.Blobs.nil THEN [hashes |-> NilList, err |-> NoError]
    ELSE VersionedHashesLoop(v, 0, [i \in 1..Len(v.Blobs.elems) |-> ZeroHash])

---- (* SpecHash: the derivations of versioned hashes driven over bounded inputs *)

\* the overrides: no list, or a list of at most MaxBlobs BlobIDs; no
\* versions, or versions for none, some or all of the entries
Overrides ==
    [Blobs : {NilList} \cup { List(l) : l \in IdLists(MaxBlobs) },
     HashVersions : {NilList, List(<< >>), List(<< 1 >>), List(<< 2, 1 >>)}]

NoOverride == [Blobs |-> NilList, HashVersions |-> NilList]
NoHashes == [hashes |-> NilList, err |-> Errorf("not called", << >>)]
NoDerivation ==
    [id |-> 0, compute |-> ZeroHash, bundle |-> NoHashes, ccp |-> NoCCP,
     get |-> [hash |-> ZeroHash, err |-> Errorf("not called", << >>)], gen |-> NoGen]

\* the bundle of a payload that includes the blobs of the listed BlobIDs:
\* nil when the capability has no commitment for one of them
BundleOfBlobIDs(ids) ==
    IF \E i \in 1..Len(ids) : ~kzgCommit[SynthBlob(ids[i])].ok THEN NilBundle
    ELSE Bundle(List([i \in 1..Len(ids) |-> kzgCommit[SynthBlob(ids[i])].val]))

InitHash ==
    /\ sha = SampleSha
    /\ \E commitFails \in SUBSET BlobIDs :
          kzgCommit = [b \in { SynthBlob(k) : k \in BlobIDs } |->
                          LET k == CHOOSE k \in BlobIDs : SynthBlob(k) = b
                          IN IF k \in commitFails THEN KzgFailure
                             ELSE KzgValue(SampleCommitment(k))]
    /\ \E proofFails \in {{}, {0}} :
          kzgProof = [b \in { SynthBlob(k) : k \in BlobIDs } |->
                          LET k == CHOOSE k \in BlobIDs : SynthBlob(k) = b
                          IN IF k \in proofFails THEN KzgFailure
                             ELSE KzgValue(SampleProof(k))]
    /\ cOp = "idle"
    /\ vhIn = << >>
    /\ vhOut = << >>
    /\ ccpIn = << >>
    /\ ccpOut = NoCCP
    /\ genIn = << 0, 0 >>
    /\ genOut = NoGen
    /\ hOp = "init"
    /\ hIn = NoOverride
    /\ hOut = NoHashes
    /\ hBundle = NoHashes
    /\ hDer = NoDerivation

\* step.VersionedHashes.VersionedHashes() of the OnNewPayloadBroadcast
\* callback, and what the callback takes without an override:
\* t.CLMock.LatestBlobBundle.VersionedHashes(BLOB_COMMITMENT_VERSION_KZG)
DoVersionedHashes ==
    /\ hOp = "init"
    /\ \E v \in Overrides :
          /\ hIn' = v
          /\ hOut' = VersionedHashes(v)
          /\ hBundle' = BundleVersionedHashes(BundleOfBlobIDs(v.Blobs.elems),
                                              BlobCommitmentVersionKZG)
    /\ hOp' = "override"
    /\ UNCHANGED hDer
    /\ UNCHANGED <<baseVars, textVars, clientVars>>

\* the hash of the commitment of one BlobID, derived in every way the
\* program has
DoDerive ==
    /\ hOp = "init"
    /\ \E id \in BlobIDs :
          hDer' = [id |-> id,
                   compute |-> ComputeVersionedHash(SampleCommitment(id)),
                   bundle |-> BundleVersionedHashes(
                                  Bundle(List(<< SampleCommitment(id) >>)),
                                  BlobCommitmentVersionKZG),
                   ccp |-> ComputeCommitmentsAndProofs(<< SynthBlob(id) >>),
                   get |-> GetVersionedHash(id, BlobCommitmentVersionKZG),
                   gen |-> BlobDataGenerator(id, 1)]
    /\ hOp' = "derived"
    /\ UNCHANGED <<hIn, hOut, hBundle>>
    /\ UNCHANGED <<baseVars, textVars, clientVars>>

NextHash == DoVersionedHashes \/ DoDerive

IdleHash ==
    /\ hOp = "idle"
    /\ hIn = NoOverride
    /\ hOut = NoHashes
    /\ hBundle = NoHashes
    /\ hDer = NoDerivation

-----------------------------------------------------------------------------
(* steps.go: LaunchClients and SendModifiedLatestPayload, steps of a        *)
(* TestSequence like SendBlobTransactions; t.Engines and t.TestEngines are  *)
(* the lists of test.Env, which the setup of the test fills with the first  *)
(* clients.                                                                 *)

\* largest ClientCount of a LaunchClients step
MaxClientCount == 2

\* test.NewTestEngineClient(t.Env, client): the wrapper holds its client
NewTestEngineClient(client) == [Engine |-> client]

\* a *VersionedHashes: nil, or the address of an override
NilPointer == [nil |-> TRUE, val |-> NoOverride]
PointerTo(v) == [nil |-> FALSE, val |-> v]

LaunchDesc(clientCount, skipBootnode, skipCLMock) ==
    [kind |-> "launch", ClientCount |-> clientCount,
     SkipConnectingToBootnode |-> skipBootnode, SkipAddingToCLMock |-> skipCLMock]

ModifiedDesc(clientID, versionedHashes) ==
    [kind |-> "modified", ClientID |-> clientID, VersionedHashes |-> versionedHashes]

\* mutant: a ClientCount of 0 launches no client
GetClientCount_Raw(step) == step.ClientCount

\* LaunchClients.GetClientCount
GetClientCount(step) == IF step.ClientCount = 0 THEN 1 ELSE step.ClientCount

\* the state the setup of a test leaves: NumEngines clients, wrapped and
\* known to the CL mock
IdleClients ==
    /\ engines = [i \in 1..NumEngines |-> i - 1]
    /\ testEngines = [i \in 1..NumEngines |-> NewTestEngineClient(i - 1)]
    /\ clMock = 0..(NumEngines - 1)
    /\ started = NumEngines
    /\ lcI = 0
    /\ origin = [c \in 0..(NumEngines - 1) |-> 0]
    /\ bootnodes = << >>
    /\ delivered = << >>

\* the variables no step of the client family writes
ClientFrame ==
    /\ UNCHANGED <<steps, mainPc, launched, wg, errsClosed, result, gloc, pool, mutex, node>>
    /\ UNCHANGED <<blobVars, commitVars, ctxVars, verVars>>
    /\ UNCHANGED <<listVars, forkVars, payVars, txVars, textVars, hashVars>>

\* clientCount := step.GetClientCount(); i := uint64(0)
LaunchClientsStart(g) ==
    /\ gpc[g] = "start"
    /\ steps[g].kind = "launch"
    /\ lcI' = 0
    /\ gpc' = [gpc EXCEPT ![g] = "launch"]
    /\ UNCHANGED <<errs, gout, engines, testEngines, clMock, started, origin, bootnodes,
                   delivered>>
    /\ ClientFrame

\* the loop test and one turn of the loop: StartClient, with t.Engines[0] as
\* bootnode unless SkipConnectingToBootnode, then the three appends
LaunchClient(g) ==
    /\ gpc[g] = "launch"
    /\ IF lcI >= GetClientCount(steps[g])
       THEN /\ Returned(g, NoError)
            /\ UNCHANGED <<engines, testEngines, clMock, started, lcI, origin, bootnodes>>
       ELSE /\ bootnodes' = IF ~steps[g].SkipConnectingToBootnode
                            THEN << engines[1] >> ELSE << >>
            /\ \/ /\ Returned(g, Errorf("StartClient", << >>))
                  /\ UNCHANGED <<engines, testEngines, clMock, started, lcI, origin>>
               \/ /\ engines' = Append(engines, started)
                  /\ testEngines' = Append(testEngines, NewTestEngineClient(started))
                  /\ clMock' = IF ~steps[g].SkipAddingToCLMock
                               THEN clMock \cup {started} ELSE clMock
                  /\ origin' = [c \in DOMAIN origin \cup {started} |->
                                   IF c = started THEN g ELSE origin[c]]
                  /\ started' = started + 1
                  /\ lcI' = lcI + 1
                  /\ UNCHANGED <<errs, gout, gpc>>
    /\ UNCHANGED delivered
    /\ ClientFrame

\* SendModifiedLatestPayload.Execute: the method VersionedHashes() reads
\* v.Blobs, which panics on a nil *VersionedHashes; its error is returned
\* before ClientID is checked; r.ExpectStatus ends the test on a mismatch
SendModifiedLatestPayload(g) ==
    /\ gpc[g] = "start"
    /\ steps[g].kind = "modified"
    /\ IF steps[g].VersionedHashes.nil
       THEN /\ gout' = [gout EXCEPT ![g] = "panic"]
            /\ gpc' = [gpc EXCEPT ![g] = "defer"]
            /\ UNCHANGED <<errs, delivered>>
       ELSE LET versionedHashes == VersionedHashes(steps[g].VersionedHashes.val)
            IN IF versionedHashes.err # NoError
               THEN /\ Returned(g, Errorf("error getting modified versioned hashes: %v",
                                          << versionedHashes.err >>))
                    /\ UNCHANGED delivered
               ELSE IF steps[g].ClientID >= Len(testEngines)
               THEN /\ Returned(g, Errorf("invalid client index %d",
                                          << IntArg(steps[g].ClientID) >>))
                    /\ UNCHANGED delivered
               ELSE /\ delivered' = Append(delivered,
                                       [testEngine |-> testEngines[steps[g].ClientID + 1],
                                        payload |-> latestPayloadBuilt,
                                        versionedHashes |-> versionedHashes.hashes])
                    /\ \/ Returned(g, NoError)
                       \/ Fatalf(g)
    /\ UNCHANGED <<engines, testEngines, clMock, started, lcI, origin, bootnodes>>
    /\ ClientFrame

IdleMore == IdleText /\ IdleHash /\ IdleClients

IdleUtil == IdleList /\ IdleFork /\ IdlePayload /\ IdleTx /\ IdleMore

IdleRest == IdleCtx /\ IdleVer /\ IdleUtil

-----------------------------------------------------------------------------
(* idle values of the variables a specification does not use *)

IdleBlob ==
    /\ blobId = 0
    /\ blob = NilBlob
    /\ fillErr = Nil
    /\ src = "new"
    /\ verifyId = 0
    /\ verifyRes = NoResult
    /\ phase = "idle"

IdleCommit ==
    /\ kzgCommit = << >>
    /\ kzgProof = << >>
    /\ cOp = "idle"
    /\ vhIn = << >>
    /\ vhOut = << >>
    /\ ccpIn = << >>
    /\ ccpOut = NoCCP
    /\ genIn = << 0, 0 >>
    /\ genOut = NoGen

IdleSteps ==
    /\ steps = << >>
    /\ mainPc = "idle"
    /\ launched = 0
    /\ wg = 0
    /\ errs = << >>
    /\ errsClosed = FALSE
    /\ result = NoError
    /\ gpc = << >>
    /\ gloc = << >>
    /\ gout = << >>
    /\ pool = [Transactions |-> << >>, HashesByIndex |-> << >>,
               CurrentTransactionIndex |-> 0, CurrentBlobID |-> 0]
    /\ mutex = 0
    /\ node = [sent |-> {}, nonce |-> << >>]

vars == <<blobVars, commitVars, stepVars, restVars>>

InitSpecBlob == InitBlob /\ IdleCommit /\ IdleSteps /\ IdleRest

SpecBlob == InitSpecBlob /\ [][NextBlob]_vars

InitSpecCommit == InitCommit /\ IdleBlob /\ IdleSteps /\ IdleRest

SpecCommit == InitSpecCommit /\ [][NextCommit]_vars

IdleSha == sha = << >>

Init == InitSteps /\ IdleBlob /\ IdleCommit /\ IdleSha /\ IdleRest

Spec == Init /\ [][Next]_vars

-----------------------------------------------------------------------------
(* properties of the commitment engine *)

\* the first blob of the list the capability fails on (0: none)
FirstFailing(blobs) ==
    IF \E i \in 1..Len(blobs) :
          ~kzgCommit[blobs[i]].ok \/ ~kzgProof[blobs[i]].ok
    THEN CHOOSE i \in 1..Len(blobs) :
            /\ ~kzgCommit[blobs[i]].ok \/ ~kzgProof[blobs[i]].ok
            /\ \A j \in 1..(i - 1) : kzgCommit[blobs[j]].ok /\ kzgProof[blobs[j]].ok
    ELSE 0

\* C4: the versioned hash of a commitment c has first byte 0x01 and bytes
\* 1..31 equal to bytes 1..31 of sha256(c).
C4_VersionedHash ==
    cOp = "vh" =>
        /\ Len(vhOut) = 32
        /\ vhOut[1] = 1
        /\ \A i \in 2..32 : vhOut[i] = sha256(vhIn)[i]

\* the hash of a commitment whose digest does not start with the version byte
C4_Witness ==
    /\ cOp = "vh"
    /\ sha256(vhIn)[1] # 1
    /\ vhOut[1] = 1
    /\ vhOut[2] = sha256(vhIn)[2]

\* C5: when ComputeCommitmentsAndProofs succeeds on n blobs it returns
\* commitments, versioned hashes and proofs of length n each, entry i of each
\* derived from blob i, and versionedHashes[i] the versioned hash of
\* commitments[i].
C5_ParallelLists ==
    (cOp = "ccp" /\ ccpOut.err = NoError) =>
        /\ ~ccpOut.commitments.nil /\ ~ccpOut.versionedHashes.nil /\ ~ccpOut.proofs.nil
        /\ Len(ccpOut.commitments.elems) = Len(ccpIn)
        /\ Len(ccpOut.versionedHashes.elems) = Len(ccpIn)
        /\ Len(ccpOut.proofs.elems) = Len(ccpIn)
        /\ \A i \in 1..Len(ccpIn) :
              /\ ccpOut.commitments.elems[i] = kzgCommit[ccpIn[i]].val
              /\ ccpOut.proofs.elems[i] =
                    [kzgProof[ccpIn[i]].val EXCEPT ![1] = kzgCommit[ccpIn[i]].val[1]]
              /\ ccpOut.versionedHashes.elems[i] =
                    [j \in 1..32 |-> IF j = 1 THEN 1
                                     ELSE sha256(ccpOut.commitments.elems[i])[j]]

\* a successful call on MaxBlobs different blobs
C5_Witness ==
    /\ cOp = "ccp" /\ ccpOut.err = NoError
    /\ Len(ccpIn) = MaxBlobs
    /\ \A i, j \in 1..Len(ccpIn) : i # j => ccpIn[i] # ccpIn[j]
    /\ Len(ccpOut.commitments.elems) = MaxBlobs

\* C6: if the commitment or proof computation fails for any blob of the list,
\* ComputeCommitmentsAndProofs returns an error and all three lists nil.
C6_NoPartialResults ==
    (cOp = "ccp" /\ FirstFailing(ccpIn) # 0) =>
        /\ ccpOut.err # NoError
        /\ ccpOut.commitments = NilList
        /\ ccpOut.versionedHashes = NilList
        /\ ccpOut.proofs = NilList

\* the last blob of a list of MaxBlobs fails after the others succeeded
C6_Witness ==
    /\ cOp = "ccp"
    /\ Len(ccpIn) = MaxBlobs
    /\ FirstFailing(ccpIn) = MaxBlobs
    /\ ccpOut.err # NoError
    /\ ccpOut.commitments.nil

\* the index i is among the values the error was formatted from
ErrorNamesIndex(err, i) ==
    \E k \in 1..Len(err.args) : err.args[k].kind = "int" /\ err.args[k].val = i

\* C7: the error returned when a blob's commitment or proof computation
\* fails identifies the index of the blob that failed.
C7_ErrorNamesIndex ==
    (cOp = "ccp" /\ FirstFailing(ccpIn) # 0) =>
        ErrorNamesIndex(ccpOut.err, FirstFailing(ccpIn) - 1)

-----------------------------------------------------------------------------
(* properties of the parallel steps and of the transaction pool *)

\* the goroutine is inside a network call of SendBlobTransactions.Execute
InNetworkCall(g) == gpc[g] \in {"send", "verify"}

\* the goroutine is at a pool read of a verification checkpoint
AtCheckpointRead(g) == gpc[g] \in {"onGetPayload", "onForkchoice"}

\* C8: every mutation of the pool (transaction map, index-to-hash map,
\* CurrentTransactionIndex, CurrentBlobID) made by concurrently running steps
\* happens while the pool-wide mutex is held by the goroutine that makes it,
\* and the mutex is never held by a goroutine that is inside a network call
\* (send transaction, verify from node).
C8_MutationsUnderMutex ==
    [][ /\ pool' # pool =>
              /\ mutex \in Goroutines
              /\ mutex' = mutex
              /\ gpc'[mutex] # gpc[mutex]
              /\ \A h \in Goroutines \ {mutex} : gpc'[h] = gpc[h]
        /\ \A g \in Goroutines : InNetworkCall(g)' => mutex' # g ]_vars

\* a sender has added its transaction under the mutex while a sibling is
\* inside a network call
C8_Witness ==
    \E g, h \in Goroutines :
        /\ g # h
        /\ mutex = g
        /\ gpc[g] = "index"
        /\ Hash(gloc[g].blobTx) \in DOMAIN pool.Transactions
        /\ InNetworkCall(h)

\* C9: every read of the pool made by the verification checkpoints (the
\* lookup in GetBlobDataInPayload, called from on-payload-built and
\* on-forkchoice) is made while holding the pool-wide lock.
C9_ReadsUnderMutex ==
    [][ \A g \in Goroutines :
            (AtCheckpointRead(g) /\ gpc'[g] # gpc[g]) => mutex = g ]_vars

\* C10: ParallelSteps.Execute is past wg.Wait() only when the goroutine of
\* every sub-step has ended, and a sub-step that ended without an error has
\* run all of its iterations, whatever happened to its siblings.
C10_WaitsForAll ==
    /\ mainPc \in {"close", "range", "returned"} =>
          \A g \in Goroutines : gpc[g] = "done" /\ gout[g] # "running"
    /\ \A g \in Goroutines :
          (gpc[g] = "done" /\ gout[g] = "nil") => gloc[g].bTx = steps[g].count

\* the composite has returned the error of a failed sub-step, and a sibling
\* sender has sent all of its transactions
C10_Witness ==
    /\ mainPc = "returned"
    /\ result # NoError
    /\ \E g, h \in Goroutines :
          /\ gout[g] = "error"
          /\ gout[h] = "nil"
          /\ steps[h].kind = "send"
          /\ gloc[h].bTx = steps[h].count
          /\ pool.CurrentTransactionIndex >= steps[h].count

\* the sub-steps whose Execute returned an error
Failed == { g \in Goroutines : gout[g] = "error" }

\* C11: ParallelSteps.Execute returns nil if and only if no sub-step returned
\* an error; otherwise it returns exactly one error, the first one sent on
\* errs (completion order), and the errors of the other failing siblings stay
\* unread in the channel.
C11_FirstErrorOnly ==
    [][ /\ (mainPc # "range" /\ errs' # errs) =>
              \E e \in { errs'[Len(errs')] } : e # NoError /\ errs' = Append(errs, e)
        /\ (mainPc = "range" /\ mainPc' = "returned") =>
              /\ Len(errs) = Cardinality(Failed)
              /\ result' = IF Failed = {} THEN NoError ELSE Head(errs)
              /\ (result' = NoError) <=> (Failed = {})
              /\ Len(errs') = IF Failed = {} THEN 0 ELSE Cardinality(Failed) - 1 ]_vars

\* two sub-steps failed, the second of the list first, and the composite
\* returned the error of that one
C11_Witness ==
    /\ mainPc = "returned"
    /\ Len(steps) >= 2
    /\ gout[1] = "error" /\ gout[2] = "error"
    /\ steps[2].AccountIndex >= NumTestAccounts
    /\ result = Errorf("invalid account index %d", << IntArg(steps[2].AccountIndex) >>)
    /\ Len(errs) = 1
    /\ errs[1] # result

-----------------------------------------------------------------------------
(* SpecSeq: a TestSequence run by the executor of the test,                 *)
(*   for stepId, step := range TestSequence {                               *)
(*       if err := step.Execute(ctx); err != nil { t.Fatalf(...) } }        *)
(* The steps are the ones of Spec, run by the same actions; here errs holds *)
(* the error the Execute of a step returned, and launched is stepId.        *)

InitSeq ==
    /\ steps \in StepLists(MaxSteps)
    /\ mainPc = "seq"
    /\ launched = 0
    /\ wg = 0
    /\ errs = << >>
    /\ errsClosed = FALSE
    /\ result = NoError
    /\ gpc = [g \in 1..Len(steps) |-> "unborn"]
    /\ gloc = [g \in 1..Len(steps) |-> NoLocals]
    /\ gout = [g \in 1..Len(steps) |-> "running"]
    /\ pool = [Transactions |-> << >>, HashesByIndex |-> << >>,
               CurrentTransactionIndex |-> 0, CurrentBlobID |-> 0]
    /\ mutex = 0
    /\ node = [sent |-> {}, nonce |-> [a \in 0..(NumTestAccounts - 1) |-> 0]]

\* mutant: the next step is started without waiting for the one before
SeqLaunch_Eager ==
    /\ mainPc = "seq"
    /\ launched < Len(steps)
    /\ launched' = launched + 1
    /\ gpc' = [gpc EXCEPT ![launched + 1] = "start"]
    /\ UNCHANGED <<steps, mainPc, wg, errs, errsClosed, result, gloc, gout, pool, mutex, node>>
    /\ UNCHANGED <<blobVars, commitVars, restVars>>

\* the loop takes the next step and calls its Execute
SeqLaunch ==
    /\ mainPc = "seq"
    /\ launched < Len(steps)
    /\ IF launched = 0 THEN TRUE ELSE gpc[launched] = "done"
    /\ launched' = launched + 1
    /\ gpc' = [gpc EXCEPT ![launched + 1] = "start"]
    /\ UNCHANGED <<steps, mainPc, wg, errs, errsClosed, result, gloc, gout, pool, mutex, node>>
    /\ UNCHANGED <<blobVars, commitVars, restVars>>

\* the Execute of the current step is over: on nil the loop goes on, on an
\* error (or a t.Fatalf inside the step) the test ends
SeqCollect ==
    /\ mainPc = "seq"
    /\ launched >= 1
    /\ gpc[launched] = "defer"
    /\ gpc' = [gpc EXCEPT ![launched] = "done"]
    /\ IF gout[launched] = "nil"
       THEN UNCHANGED <<mainPc, result>>
       ELSE /\ mainPc' = "failed"
            /\ result' = IF gout[launched] = "error" THEN errs[Len(errs)]
                         ELSE Errorf("FAIL", << >>)
    /\ UNCHANGED <<steps, launched, wg, errs, errsClosed, gloc, gout, pool, mutex, node>>
    /\ UNCHANGED <<blobVars, commitVars, restVars>>

\* the range is over
SeqEnd ==
    /\ mainPc = "seq"
    /\ launched = Len(steps)
    /\ IF launched = 0 THEN TRUE ELSE gpc[launched] = "done"
    /\ mainPc' = "returned"
    /\ UNCHANGED <<steps, launched, wg, errs, errsClosed, result, gpc, gloc, gout,
                   pool, mutex, node>>
    /\ UNCHANGED <<blobVars, commitVars, restVars>>

NextSeq ==
    \/ SeqLaunch
    \/ SeqCollect
    \/ SeqEnd
    \/ \E g \in Goroutines : SendStart(g)
    \/ \E g \in Goroutines : SendCreate(g)
    \/ \E g \in Goroutines : SendTransaction(g)
    \/ \E g \in Goroutines : VerifyFromNode(g)
    \/ \E g \in Goroutines : Lock(g)
    \/ \E g \in Goroutines : Add(g)
    \/ \E g \in Goroutines : Index(g)
    \/ \E g \in Goroutines : AdvanceBlobID(g)
    \/ \E g \in Goroutines : Unlock(g)
    \/ \E g \in Goroutines : PayloadStart(g)
    \/ \E g \in Goroutines : ProducePayload(g)
    \/ \E g \in Goroutines : OnGetPayload(g)
    \/ \E g \in Goroutines : OnNewPayloadBroadcast(g)
    \/ \E g \in Goroutines : OnForkchoiceBroadcast(g)

InitSpecSeq == InitSeq /\ IdleBlob /\ IdleCommit /\ IdleSha /\ IdleRest

SpecSeq == InitSpecSeq /\ [][NextSeq]_vars

\* the transactions and the blobs the steps before step g added to the pool
RECURSIVE AddedBefore(_)
AddedBefore(g) ==
    IF g <= 1 THEN [txs |-> 0, blobs |-> 0]
    ELSE LET before == AddedBefore(g - 1)
             n == IF steps[g - 1].kind = "send" THEN gloc[g - 1].bTx ELSE 0
         IN [txs |-> before.txs + n,
             blobs |-> before.blobs + n * GetBlobsPerTransaction(steps[g - 1])]

\* the step is being executed
Executing(g) == gpc[g] \notin {"unborn", "done"}

\* C12: in a TestSequence the steps execute in list order, one at a time;
\* a step starts only after the steps before it returned and finds in the
\* pool all their additions and counter increments; after a step failed no
\* later step is executed.
C12_SequenceOrder ==
    \A g \in Goroutines :
        /\ Executing(g) => \A h \in Goroutines \ {g} : ~Executing(h)
        /\ gpc[g] # "unborn" =>
              \A h \in 1..(g - 1) : gpc[h] = "done" /\ gout[h] = "nil"
        /\ gpc[g] = "start" =>
              /\ pool.CurrentTransactionIndex = AddedBefore(g).txs
              /\ pool.CurrentBlobID = AddedBefore(g).blobs
              /\ \A tx \in node.sent : Hash(tx) \in DOMAIN pool.Transactions
        /\ (gout[g] \in {"error", "fatal"} /\ gpc[g] = "done") =>
              /\ mainPc = "failed"
              /\ \A h \in Goroutines : h > g => gpc[h] = "unborn"

\* a second step starts on the pool the first step filled
C12_Witness ==
    /\ Len(steps) >= 2
    /\ gpc[2] = "start"
    /\ steps[1].kind = "send"
    /\ pool.CurrentTransactionIndex = steps[1].count
    /\ pool.CurrentTransactionIndex > 0

-----------------------------------------------------------------------------
(* SpecCtx: concurrent callers of InitializeCryptoCtx and CryptoCtx *)

InitSpecCtx == InitCtx /\ IdleBlob /\ IdleCommit /\ IdleSha /\ IdleSteps /\ IdleVer /\ IdleUtil

SpecCtx == InitSpecCtx /\ [][NextCtx]_vars

\* C13: the crypto context is constructed at most once per process under
\* any interleaving of concurrent InitializeCryptoCtx / CryptoCtx calls, and
\* every call of CryptoCtx that returns yields the same, fully constructed
\* context.
C13_ConstructedOnce ==
    /\ constructions <= 1
    /\ \A c \in Callers : cret[c] \in {"none", "ctx"}

-----------------------------------------------------------------------------
(* properties of the pool *)

\* tx, ok := pool.Transactions[hash]
Lookup(p, hash) ==
    IF hash \in DOMAIN p.Transactions
    THEN [tx |-> p.Transactions[hash], ok |-> TRUE]
    ELSE [tx |-> NoTx, ok |-> FALSE]

\* the transactions that were sent to the client and not added to the pool yet
NotYetAdded ==
    { gloc[g].blobTx : g \in { h \in Goroutines : gpc[h] \in {"verify", "lock", "add"} } }

\* C14: after a transaction is added to the pool, looking up its hash
\* returns that transaction with ok = true, and this stays true after later
\* additions of other transactions; looking up a hash that was never added
\* returns ok = false.
C14_LookupAfterAdd ==
    [][ /\ \A g \in Goroutines :
              (gpc[g] = "add" /\ gpc'[g] = "index") =>
                  Lookup(pool', Hash(gloc[g].blobTx)) = [tx |-> gloc[g].blobTx, ok |-> TRUE]
        /\ \A tx \in node.sent :
              Lookup(pool, Hash(tx)).ok => Lookup(pool', Hash(tx)) = [tx |-> tx, ok |-> TRUE]
        /\ \A tx \in NotYetAdded' : ~Lookup(pool', Hash(tx)).ok ]_vars

\* the pool holds the transactions of two senders, and a third transaction
\* was sent and is not in it yet
C14_Witness ==
    \E tx1, tx2 \in node.sent :
        /\ tx1.account # tx2.account
        /\ Lookup(pool, Hash(tx1)) = [tx |-> tx1, ok |-> TRUE]
        /\ Lookup(pool, Hash(tx2)) = [tx |-> tx2, ok |-> TRUE]
        /\ \E tx3 \in NotYetAdded : ~Lookup(pool, Hash(tx3)).ok

\* the senders that have added their transaction and not recorded its index yet
BeingIndexed == { g \in Goroutines : gpc[g] = "index" }

\* the submission index agrees with the transaction map
IndexConsistent(p, pending) ==
    /\ DOMAIN p.HashesByIndex = 0..(p.CurrentTransactionIndex - 1)
    /\ \A i, j \in DOMAIN p.HashesByIndex : i # j => p.HashesByIndex[i] # p.HashesByIndex[j]
    /\ \A i \in DOMAIN p.HashesByIndex : p.HashesByIndex[i] \in DOMAIN p.Transactions
    /\ p.CurrentTransactionIndex + Cardinality(pending) = Cardinality(DOMAIN p.Transactions)

\* C15: the submission index only ever increases, by exactly 1 per added
\* transaction: after n transactions were added under any interleaving of the
\* senders, CurrentTransactionIndex is n and HashesByIndex maps each index
\* 0..n-1 to the hash of exactly one added transaction, with no gap and no
\* index overwritten.
C15_SubmissionIndex ==
    [][ /\ IndexConsistent(pool, BeingIndexed)'
        /\ pool'.CurrentTransactionIndex \in
              { pool.CurrentTransactionIndex, pool.CurrentTransactionIndex + 1 }
        /\ pool'.CurrentTransactionIndex = pool.CurrentTransactionIndex + 1 <=>
              \E g \in Goroutines : gpc[g] = "index" /\ gpc'[g] = "blobid"
        /\ \A i \in DOMAIN pool.HashesByIndex :
              /\ i \in DOMAIN pool'.HashesByIndex
              /\ pool'.HashesByIndex[i] = pool.HashesByIndex[i] ]_vars

\* three transactions of two senders were indexed, the second sender's
\* between the two of the first
C15_Witness ==
    /\ pool.CurrentTransactionIndex = 3
    /\ DOMAIN pool.HashesByIndex = 0..2
    /\ pool.Transactions[pool.HashesByIndex[0]].account =
          pool.Transactions[pool.HashesByIndex[2]].account
    /\ pool.Transactions[pool.HashesByIndex[1]].account #
          pool.Transactions[pool.HashesByIndex[0]].account

-----------------------------------------------------------------------------
(* SpecVerify *)

InitSpecVerify == InitVerify /\ IdleBlob /\ IdleCommit /\ IdleSteps /\ IdleCtx /\ IdleUtil

SpecVerify == InitSpecVerify /\ [][NextVerify]_vars

-----------------------------------------------------------------------------
(* Claims about GetBlobDataInPayload and VerifyBlobBundle (SpecVerify) *)

\* txData.Type() != types.BlobTxType: the transactions the loop skips
Skipped(txData) == txData.type \notin {BlobTxType, Undecodable}

NotSkipped(txData) == ~Skipped(txData)

\* the payload holds a blob transaction whose hash is not in pool p
HasUnknownBlobTx(p, transactions) ==
    \E i \in 1..Len(transactions) :
        /\ transactions[i].type = BlobTxType
        /\ transactions[i].hash \notin DOMAIN p.Transactions

\* C16: when the payload contains a blob transaction whose hash is not in
\* the pool, GetBlobDataInPayload returns an error and nil for both lists,
\* also when earlier transactions of the payload were matched; and the
\* result is the one of the payload without its non-blob transactions.
C16_UnknownTransaction ==
    vOp # "init" =>
        /\ HasUnknownBlobTx(vPool, vPayload) =>
              /\ vGot.err # NoError
              /\ vGot.txs = NilList
              /\ vGot.data = NilList
        /\ vGot = GetBlobData(vPool, SelectSeq(vPayload, NotSkipped))

\* a payload whose first transaction was matched in the pool and whose
\* second is not in the pool has been looked up
C16_Witness ==
    /\ vOp = "got"
    /\ Len(vPayload) = 2
    /\ vPayload[1].type = BlobTxType
    /\ vPayload[1].hash \in DOMAIN vPool.Transactions
    /\ GetBlobData(vPool, << vPayload[1] >>).err = NoError
    /\ vPayload[2].type = BlobTxType
    /\ vPayload[2].hash \notin DOMAIN vPool.Transactions
    /\ vGot.err.format = "could not find transaction %s in the pool"

\* pool entry tx records a versioned hash that is not the one of the
\* commitment at the same index
HashMismatch(tx) ==
    /\ tx.withBlobData
    /\ tx.hasBlobData
    /\ \E k \in 1..Len(tx.BlobHashes) :
          /\ k <= Len(tx.Commitments)
          /\ tx.BlobHashes[k] # KZGToVersionedHash(tx.Commitments[k])

\* the blob transactions of the payload that are in pool p
MatchedTxs(p, transactions) ==
    { p.Transactions[transactions[i].hash] :
        i \in { j \in 1..Len(transactions) :
                  /\ transactions[j].type = BlobTxType
                  /\ transactions[j].hash \in DOMAIN p.Transactions } }

\* C17: for every blob transaction of the payload that is matched in the
\* pool, the versioned hashes of its wrap data are those of its commitments,
\* index for index; with a mismatch at any index the cross-validation of
\* the payload does not succeed.
C17_HashMismatchFails ==
    (\E tx \in MatchedTxs(vPool, vPayload) : HashMismatch(tx)) =>
        ~(vOp = "verified" /\ vErr = NoError)

\* the lists of pool entry tx are not all of the same length
UnequalLengths(tx) ==
    Cardinality({ Len(tx.Blobs), Len(tx.Commitments), Len(tx.Proofs),
                  Len(tx.BlobHashes) }) # 1

\* pool entry tx has no wrap data: it is no TransactionWithBlobData, or its
\* BlobData is nil
NoWrapData(tx) == ~tx.withBlobData \/ ~tx.hasBlobData

\* the number of blobs the pool records for the blob transactions of the
\* payload from position i on
RECURSIVE BlobsRecorded(_, _, _)
BlobsRecorded(p, transactions, i) ==
    IF i > Len(transactions) THEN 0
    ELSE (IF /\ transactions[i].type = BlobTxType
             /\ transactions[i].hash \in DOMAIN p.Transactions
          THEN Len(p.Transactions[transactions[i].hash].Blobs)
          ELSE 0) + BlobsRecorded(p, transactions, i + 1)

\* C18: if a pool entry included in the payload has no wrap data, or has
\* blob, commitment, proof and versioned-hash lists that are not all of the
\* same length, GetBlobDataInPayload returns an error and no lists; a result
\* that is returned holds one entry for every recorded blob, never fewer.
C18_UnequalLengthsRejected ==
    vOp # "init" =>
        /\ (\E tx \in MatchedTxs(vPool, vPayload) : NoWrapData(tx) \/ UnequalLengths(tx)) =>
              /\ vGot.err # NoError
              /\ vGot.txs = NilList
              /\ vGot.data = NilList
        /\ vGot.err = NoError =>
              /\ Len(vGot.data.elems) = BlobsRecorded(vPool, vPayload, 1)
              /\ \A tx \in MatchedTxs(vPool, vPayload) : ~UnequalLengths(tx)

\* a payload with a pool entry whose proof list is longer than its blob
\* list has been rejected for its wrap data
C18_Witness ==
    /\ vOp = "got"
    /\ \E tx \in MatchedTxs(vPool, vPayload) :
          /\ ~NoWrapData(tx)
          /\ Len(tx.Proofs) > Len(tx.Blobs)
    /\ vGot.err.format = "invalid blob wrap data"
    /\ vGot.data = NilList

\* the commitment, blob and proof of every blob the pool records for the
\* blob transactions of the payload from position i on: in the order of the
\* payload's transactions, then in the order of the blobs of a transaction
RECURSIVE IncludedBlobs(_, _, _)
IncludedBlobs(p, transactions, i) ==
    IF i > Len(transactions) THEN << >>
    ELSE (IF /\ transactions[i].type = BlobTxType
             /\ transactions[i].hash \in DOMAIN p.Transactions
          THEN LET tx == p.Transactions[transactions[i].hash]
               IN [k \in 1..Len(tx.Blobs) |->
                     << tx.Commitments[k], tx.Blobs[k], tx.Proofs[k] >>]
          ELSE << >>) \o IncludedBlobs(p, transactions, i + 1)

\* the lists of the bundle have the length the step and the pool give
BundleLengthsOk(step, bundle, included) ==
    /\ Len(bundle.Commitments) = Len(bundle.Blobs)
    /\ Len(bundle.Proofs) = Len(bundle.Blobs)
    /\ Len(bundle.Blobs) = step.ExpectedIncludedBlobCount
    /\ Len(bundle.Blobs) = Len(included)

\* the bundle holds at position i the i-th included blob
BundleMatchesAt(bundle, included, i) ==
    << bundle.Commitments[i], bundle.Blobs[i], bundle.Proofs[i] >> = included[i]

MismatchFormats ==
    { "KZG mismatch at index %d of the bundle",
      "blob mismatch at index %d of the bundle",
      "proof mismatch at index %d of the bundle" }

\* C19: VerifyBlobBundle returns nil only if the bundle's blobs, commitments
\* and proofs have the same length, which is ExpectedIncludedBlobCount and
\* the number of blobs the pool records for the payload's blob
\* transactions, and the bundle equals the included blobs at every index;
\* when the lengths are right the error of a mismatch names the first
\* mismatching index, counted from 0.
C19_BundleMatchesPool ==
    vOp = "verified" =>
        LET included == IncludedBlobs(vPool, vPayload, 1)
            wrong == { i \in 1..Len(included) : ~BundleMatchesAt(vBundle, included, i) }
        IN /\ vErr = NoError =>
                /\ BundleLengthsOk(vStep, vBundle, included)
                /\ wrong = {}
           /\ (BundleLengthsOk(vStep, vBundle, included) /\ wrong # {}) =>
                /\ vErr.format \in MismatchFormats
                /\ \E i \in wrong :
                      /\ \A j \in wrong : i <= j
                      /\ ErrorNamesIndex(vErr, i - 1)

\* a bundle of two blobs whose second proof is not the one of the pool has
\* been verified and the error names index 1
C19_Witness ==
    /\ vOp = "verified"
    /\ Len(vBundle.Blobs) = 2
    /\ BundleLengthsOk(vStep, vBundle, IncludedBlobs(vPool, vPayload, 1))
    /\ BundleMatchesAt(vBundle, IncludedBlobs(vPool, vPayload, 1), 1)
    /\ vErr.format = "proof mismatch at index %d of the bundle"
    /\ ErrorNamesIndex(vErr, 1)

Reverse(s) == [i \in 1..Len(s) |-> s[Len(s) + 1 - i]]

\* id matches, by VerifyBlob, at least one of the blobs included in the
\* payload
MatchesIncluded(id, blobDataInPayload) ==
    \E i \in 1..Len(blobDataInPayload) : VerifyBlob(id, blobDataInPayload[i].Blob).ok

\* VerifyBlobBundle with the expected ids, and with the included blobs and
\* the bundle, in the opposite order
VerifyReversedExpected(step, blobDataInPayload, blobBundle) ==
    VerifyBlobBundle([step EXCEPT !.ExpectedBlobs = Reverse(@)], blobDataInPayload,
                     blobBundle)

VerifyReversedIncluded(step, blobDataInPayload, blobBundle) ==
    VerifyBlobBundle(step, Reverse(blobDataInPayload),
                     [Commitments |-> Reverse(blobBundle.Commitments),
                      Blobs |-> Reverse(blobBundle.Blobs),
                      Proofs |-> Reverse(blobBundle.Proofs)])

\* C20: with a non-empty list of expected BlobIDs VerifyBlobBundle returns
\* nil only if every listed id matches, by VerifyBlob, at least one blob
\* included in the payload; whether it returns nil does not depend on the
\* order of the list nor on the order of the included blobs; and the error
\* for an id that was not found names an id of the list that matches no
\* included blob.
C20_ExpectedBlobsFound ==
    (vOp = "verified" /\ vStep.ExpectedBlobs # << >>) =>
        LET data == vGot.data.elems
            expected == vStep.ExpectedBlobs
            missing == { j \in 1..Len(expected) : ~MatchesIncluded(expected[j], data) }
        IN /\ vErr = NoError => missing = {}
           /\ (vErr = NoError) = (VerifyReversedExpected(vStep, data, vBundle) = NoError)
           /\ (vErr = NoError) = (VerifyReversedIncluded(vStep, data, vBundle) = NoError)
           /\ vErr.format = "could not find expected blob %d" =>
                 \E j \in missing : vErr.args = << IntArg(expected[j]) >>
           /\ (VerifyBlobBundle([vStep EXCEPT !.ExpectedBlobs = << >>], data, vBundle) = NoError
                  /\ missing # {}) =>
                 vErr.format = "could not find expected blob %d"

\* two expected ids, listed in the opposite order of the included blobs
\* they match, have been verified with success
C20_Witness ==
    /\ vOp = "verified"
    /\ vErr = NoError
    /\ Len(vStep.ExpectedBlobs) = 2
    /\ Len(vGot.data.elems) >= 2
    /\ VerifyBlob(vStep.ExpectedBlobs[1], vGot.data.elems[2].Blob).ok
    /\ VerifyBlob(vStep.ExpectedBlobs[2], vGot.data.elems[1].Blob).ok
    /\ ~VerifyBlob(vStep.ExpectedBlobs[1], vGot.data.elems[1].Blob).ok

-----------------------------------------------------------------------------
(* SpecList, SpecFork *)

InitSpecList ==
    InitList /\ IdleMore /\ IdleFork /\ IdlePayload /\ IdleTx /\ IdleBlob /\ IdleCommit /\ IdleSha /\ IdleSteps /\ IdleCtx /\ IdleVer

SpecList == InitSpecList /\ [][NextList]_vars

InitSpecFork ==
    InitFork /\ IdleMore /\ IdleList /\ IdlePayload /\ IdleTx /\ IdleBlob /\ IdleCommit /\ IdleSha /\ IdleSteps /\ IdleCtx /\ IdleVer

SpecFork == InitSpecFork /\ [][NextFork]_vars

-----------------------------------------------------------------------------------------------------------------------------------------------------
(* SpecPayload, SpecTx *)

\* the fork variables other than the configuration
IdleForkCall ==
    /\ fIn = << 0, NilTimestamp >>
    /\ fOp = "idle"
    /\ fOut = 0

InitSpecPayload ==
    /\ InitPayload
    /\ IdleForkCall /\ IdleList /\ IdleTx /\ IdleMore
    /\ IdleBlob /\ IdleCommit /\ IdleSha /\ IdleSteps /\ IdleCtx /\ IdleVer

SpecPayload == InitSpecPayload /\ [][NextPayload]_vars

InitSpecTx ==
    /\ InitCommit /\ InitTx
    /\ IdleList /\ IdleFork /\ IdlePayload /\ IdleMore
    /\ IdleBlob /\ IdleSteps /\ IdleCtx /\ IdleVer

SpecTx == InitSpecTx /\ [][NextTx]_vars

-----
(* properties of the blob lists *)

Ascending(l) == \A i, j \in 1..Len(l) : i < j => l[i] < l[j]

\* C29: GetBlobListByIndex(a, b) returns |a-b|+1 identifiers: for a < b the
\* ascending run a, a+1, ..., b and for a > b the descending run
\* a, a-1, ..., b. (The pair of arguments whose count does not fit the
\* unsigned width is left out.)
C29_BothDirections ==
    LET a == lIn[1]
        b == lIn[2]
        n == (IF a < b THEN b - a ELSE a - b) + 1
    IN (lOp = "GetBlobListByIndex" /\ n <= MaxUint) =>
          /\ Len(lOut) = n
          /\ a < b => \A i \in 0..(n - 1) : lOut[i + 1] = a + i
          /\ a > b => \A i \in 0..(n - 1) : lOut[i + 1] = a - i

\* C30, as stated: GetBlobList(start, count) returns exactly count
\* identifiers, the i-th being start + i, in ascending order.
C30_AsStated ==
    lOp = "GetBlobList" =>
        /\ Len(lOut) = lIn[2]
        /\ \A i \in 0..(lIn[2] - 1) : lOut[i + 1] = lIn[1] + i
        /\ Ascending(lOut)

\* C30, amended: GetBlobList(start, count) returns exactly count
\* identifiers, the i-th being start + i in unsigned arithmetic; when
\* start + count - 1 fits the unsigned width the i-th is start + i and the
\* list is ascending.
C30_GetBlobList ==
    lOp = "GetBlobList" =>
        /\ Len(lOut) = lIn[2]
        /\ \A i \in 0..(lIn[2] - 1) : lOut[i + 1] = Uint(lIn[1] + i)
        /\ lIn[1] + lIn[2] - 1 <= MaxUint =>
              /\ \A i \in 0..(lIn[2] - 1) : lOut[i + 1] = lIn[1] + i
              /\ Ascending(lOut)

\* a list of MaxListLen identifiers that does not wrap has been returned
C30_Witness ==
    /\ lOp = "GetBlobList"
    /\ lIn[1] > 0
    /\ lIn[2] = MaxListLen
    /\ lIn[1] + lIn[2] - 1 <= MaxUint
    /\ Len(lOut) = MaxListLen

-----------------------------------------------------------------------------
(* properties of the fork policy *)

\* the three activation timestamps are set and ordered base <= mid <= late
Ordered(f) ==
    /\ f.ShanghaiTimestamp # NilTimestamp
    /\ f.CancunTimestamp # NilTimestamp
    /\ f.PragueTimestamp # NilTimestamp
    /\ f.ShanghaiTimestamp[1] <= f.CancunTimestamp[1]
    /\ f.CancunTimestamp[1] <= f.PragueTimestamp[1]

\* C24: the version GetPayloadVersion and NewPayloadVersion return is the
\* same, no later timestamp has a smaller one, and with the activation
\* timestamps ordered it is 1 before the base fork, 2 from the base fork,
\* 3 from the mid fork and 4 from the late fork.
C24_PayloadVersion ==
    fOp \in {"GetPayloadVersion", "NewPayloadVersion"} =>
        LET t == fIn[1]
        IN /\ fOut = GetPayloadVersion(forkConfig, t)
           /\ fOut = NewPayloadVersion(forkConfig, t)
           /\ \A later \in Timestamps :
                 later >= t => GetPayloadVersion(forkConfig, later) >= fOut
           /\ Ordered(forkConfig) =>
                 fOut = IF t >= forkConfig.PragueTimestamp[1] THEN 4
                        ELSE IF t >= forkConfig.CancunTimestamp[1] THEN 3
                        ELSE IF t >= forkConfig.ShanghaiTimestamp[1] THEN 2
                        ELSE 1

\* with three different, ordered activation timestamps NewPayloadVersion
\* was called on the timestamp of the late fork and returned 4
C24_Witness ==
    /\ fOp = "NewPayloadVersion"
    /\ Ordered(forkConfig)
    /\ forkConfig.ShanghaiTimestamp[1] < forkConfig.CancunTimestamp[1]
    /\ forkConfig.CancunTimestamp[1] < forkConfig.PragueTimestamp[1]
    /\ fIn[1] = forkConfig.PragueTimestamp[1]
    /\ fOut = 4

\* C25: ForkchoiceUpdatedVersion(head, requested) is the same for every
\* head when a requested timestamp t is given, and equals
\* ForkchoiceUpdatedVersion(t, none); with none given it is the version of
\* the head timestamp.
C25_RequestedTimestampFirst ==
    fOp = "ForkchoiceUpdatedVersion" =>
        /\ fIn[2] # NilTimestamp =>
              /\ \A h \in Timestamps :
                    ForkchoiceUpdatedVersion(forkConfig, h, fIn[2]) = fOut
              /\ ForkchoiceUpdatedVersion(forkConfig, fIn[2][1], NilTimestamp) = fOut
        /\ fIn[2] = NilTimestamp =>
              \A h \in Timestamps :
                  ForkchoiceUpdatedVersion(forkConfig, h, << fIn[1] >>) = fOut

\* a call with a requested timestamp whose version is not the one of the
\* head timestamp
C25_Witness ==
    /\ fOp = "ForkchoiceUpdatedVersion"
    /\ fIn[2] # NilTimestamp
    /\ fOut # ForkchoiceUpdatedVersion(forkConfig, fIn[1], NilTimestamp)

-----------------------------------------------------------------------------
(* properties of the NewPayloads step *)

\* the value of a gas field, an absent field counting as 0
GasOr0(field) == IF field = NilUint THEN 0 ELSE field[1]

\* the excess blob gas that follows payload parent
ExcessAfter(parent) ==
    CalcExcessDataGas(GasOr0(parent.ExcessDataGas), GasOr0(parent.DataGasUsed))

\* a cycle is between its built payload and the end of its checkpoints
InCycle == npPc \in {"onGetPayload", "onNewPayload", "onForkchoice", "failed"}

\* C21: built[1] is the latest payload built before the step and built[k+1]
\* the payload of cycle k. While cycle k runs, and when its forkchoice
\* checkpoint calls VerifyPayload, the previous payload is built[k]; with the
\* fork active the check returns an error unless the excess blob gas of the
\* new payload is the one that follows built[k]; the previous payload becomes
\* built[k+1] only when the check of cycle k has passed.
C21_ExcessFromPreviousCycle ==
    npPc \notin {"idle", "start"} =>
        /\ previousPayload = built[npP + 1]
        /\ latestPayloadBuilt = built[Len(built)]
        /\ Len(built) = IF InCycle THEN npP + 2 ELSE npP + 1
        /\ \A k \in 1..npP :
              IsCancun(forkConfig, built[k + 1].Timestamp) =>
                  built[k + 1].ExcessDataGas = << ExcessAfter(built[k]) >>
        /\ (npVerified /\ npPc = "failed"
              /\ IsCancun(forkConfig, latestPayloadBuilt.Timestamp)
              /\ latestPayloadBuilt.ExcessDataGas # << ExcessAfter(built[npP + 1]) >>) =>
              npErr # NoError

\* the second cycle passed its check with a payload whose excess blob gas
\* follows from the payload of the first cycle and not from the payload
\* before the step
C21_Witness ==
    /\ npPc = "loop"
    /\ npP = 2
    /\ npVerified
    /\ IsCancun(forkConfig, built[3].Timestamp)
    /\ built[3].ExcessDataGas = << ExcessAfter(built[2]) >>
    /\ ExcessAfter(built[2]) # ExcessAfter(built[1])
    /\ built[2].DataGasUsed # NilUint
    /\ built[2].DataGasUsed[1] > 0

\* C22: when the fork is not active at the timestamp of the payload,
\* VerifyPayload returns an error if the excess blob gas or the blob gas
\* used of the payload is present and returns nil when both are absent; when
\* the fork is active it returns an error if either is absent.
C22_FieldsFollowFork ==
    npVerified =>
        LET payload == latestPayloadBuilt
            present == { field \in {payload.ExcessDataGas, payload.DataGasUsed} :
                           field # NilUint }
        IN IF IsCancun(forkConfig, payload.Timestamp)
           THEN (payload.ExcessDataGas = NilUint \/ payload.DataGasUsed = NilUint) =>
                    npErr # NoError
           ELSE (npErr = NoError) = (present = {})

\* before the fork, a payload with its blob gas used present and its excess
\* blob gas absent has been rejected
C22_Witness ==
    /\ npVerified
    /\ ~IsCancun(forkConfig, latestPayloadBuilt.Timestamp)
    /\ latestPayloadBuilt.ExcessDataGas = NilUint
    /\ latestPayloadBuilt.DataGasUsed # NilUint
    /\ npErr.format = "payload contains non-nil dataGasUsed pre-fork"

\* C23: when the step declares no version, the version the payload is
\* submitted with is the one ForkConfig.NewPayloadVersion gives for the
\* timestamp of the payload.
C23_VersionFromPolicy ==
    (npStep.Version = 0 /\ npVersion # 0) =>
        npVersion = NewPayloadVersion(forkConfig, latestPayloadBuilt.Timestamp)

-----------------------------------------------------------------------------
(* properties of the transaction creator *)

\* the BlobIDs of the blobs of creator c
CreatorBlobIDs(c) == { c.BlobID + i : i \in 0..(c.BlobCount - 1) }

\* the capability fails on the blob of BlobID k
CapabilityFails(k) == ~kzgCommit[SynthBlob(k)].ok \/ ~kzgProof[SynthBlob(k)].ok

\* C27: the transaction MakeTransaction returns carries exactly BlobCount
\* blobs, commitments and proofs; blob i is the synthesized blob of
\* BlobID + i, its commitment and proof are the ones of the capability, and
\* the blob hash i of the transaction is the version byte 0x01 followed by
\* the last 31 bytes of the sha256 of commitment i.
C27_WrapDataOfTransaction ==
    (txOp = "made" /\ txOut.err = NoError) =>
        LET tx == txOut.tx
            n == txCreator.BlobCount
            blobs == tx.BlobData.Blobs.elems
            commitments == tx.BlobData.Commitments.elems
            proofs == tx.BlobData.Proofs.elems
            hashes == tx.BlobHashes.elems
        IN /\ ~tx.nil
           /\ Len(blobs) = n /\ Len(commitments) = n /\ Len(proofs) = n /\ Len(hashes) = n
           /\ \A i \in 0..(n - 1) :
                 /\ blobs[i + 1] = SynthBlob(txCreator.BlobID + i)
                 /\ VerifyBlob(txCreator.BlobID + i, blobs[i + 1]).ok
                 /\ commitments[i + 1] = kzgCommit[blobs[i + 1]].val
                 /\ proofs[i + 1] = ComputeBlobKZGProof(blobs[i + 1], commitments[i + 1]).val
                 /\ hashes[i + 1][1] = 1
                 /\ SubSeq(hashes[i + 1], 2, 32) = SubSeq(sha[commitments[i + 1]], 2, 32)

\* a transaction of MaxBlobs blobs, not starting at BlobID 0, was returned
C27_Witness ==
    /\ txOp = "made"
    /\ txOut.err = NoError
    /\ txCreator.BlobCount = MaxBlobs
    /\ txCreator.BlobID > 0
    /\ Len(txOut.tx.BlobHashes.elems) = MaxBlobs

\* C28: MakeTransaction returns an error and no transaction when the
\* creator has no destination address and when the capability fails on one
\* of its blobs; it returns a transaction exactly when it returns no error.
C28_ErrorOrTransaction ==
    txOp = "made" =>
        /\ (txOut.err = NoError) = ~txOut.tx.nil
        /\ txOut.err # NoError => txOut.tx = NilTransaction
        /\ txCreator.To = NilAddress => txOut.err # NoError
        /\ (\E k \in CreatorBlobIDs(txCreator) : CapabilityFails(k)) => txOut.err # NoError

\* a creator without destination address, on whose blobs the capability
\* does not fail, got the error of the missing address
C28_Witness ==
    /\ txOp = "made"
    /\ txCreator.To = NilAddress
    /\ txCreator.BlobCount > 0
    /\ \A k \in CreatorBlobIDs(txCreator) : ~CapabilityFails(k)
    /\ txOut.err.format = "nil to address"
    /\ txOut.tx = NilTransaction

-----------------------------------------------------------------------------
(* properties of SendBlobTransactions.Execute *)

\* the transactions sender g has indexed, and the BlobIDs it has advanced
\* the blob counter by
IndexedBy(g) ==
    IF steps[g].kind # "send" THEN 0
    ELSE gloc[g].bTx + (IF gpc[g] \in {"blobid", "unlock"} THEN 1 ELSE 0)
AdvancedBy(g) ==
    IF steps[g].kind # "send" THEN 0
    ELSE GetBlobsPerTransaction(steps[g]) *
            (gloc[g].bTx + (IF gpc[g] = "unlock" THEN 1 ELSE 0))

RECURSIVE SumIndexed(_)
SumIndexed(g) == IF g = 0 THEN 0 ELSE SumIndexed(g - 1) + IndexedBy(g)
RECURSIVE SumAdvanced(_)
SumAdvanced(g) == IF g = 0 THEN 0 ELSE SumAdvanced(g - 1) + AdvancedBy(g)

\* the counters of the pool are the sums of what the senders added to them,
\* and a sender that returned nil went through all its transactions
SendContributions ==
    /\ pool.CurrentTransactionIndex = SumIndexed(Len(steps))
    /\ pool.CurrentBlobID = SumAdvanced(Len(steps))
    /\ \A g \in Goroutines :
          (steps[g].kind = "send" /\ gout[g] = "nil") => gloc[g].bTx = steps[g].count

\* C26: a SendBlobTransactions step that returned nil after sending n
\* transactions of b blobs each (b = 1 when BlobsPerTransaction is 0) has
\* increased CurrentTransactionIndex by n and CurrentBlobID by n * b, every
\* one of its transactions is in the pool, and in a sequence its k-th
\* transaction (k from 0) has the b BlobIDs from start + k * b on, start being
\* CurrentBlobID when the step began.
C26_SendAdvancesCounters ==
    /\ SendContributions
    /\ \A g \in Goroutines :
          LET n == steps[g].count
              b == GetBlobsPerTransaction(steps[g])
              first == AddedBefore(g).txs
              start == AddedBefore(g).blobs
          IN /\ gpc[g] = "start" =>
                   /\ pool.CurrentTransactionIndex = first
                   /\ pool.CurrentBlobID = start
             /\ (steps[g].kind = "send" /\ gout[g] = "nil") =>
                   /\ g = launched =>
                         /\ pool.CurrentTransactionIndex = first + n
                         /\ pool.CurrentBlobID = start + (n * b)
                   /\ \A k \in 0..(n - 1) :
                         /\ first + k \in DOMAIN pool.HashesByIndex
                         /\ Lookup(pool, pool.HashesByIndex[first + k]).ok
                         /\ LET tx == Lookup(pool, pool.HashesByIndex[first + k]).tx
                            IN /\ tx \in node.sent
                               /\ tx.account = steps[g].AccountIndex
                               /\ tx.blobCount = b
                               /\ tx.blobId = start + (k * b)

\* a sequence of a sender of one transaction of two blobs and a sender of
\* MaxSendCount transactions of one blob each has returned
C26_Witness ==
    /\ mainPc = "returned"
    /\ Len(steps) = 2
    /\ steps[1].kind = "send" /\ steps[1].BlobsPerTransaction = 2 /\ gout[1] = "nil"
    /\ steps[2].kind = "send" /\ steps[2].count = MaxSendCount /\ gout[2] = "nil"
    /\ pool.CurrentTransactionIndex = steps[1].count + MaxSendCount
    /\ pool.CurrentBlobID = (2 * steps[1].count) + MaxSendCount

-----------------------------------------------------------------------------
(* the nil blob *)

\* C31: FillBlob and VerifyBlob called with a nil blob return an error,
\* VerifyBlob with the result false, for every BlobID, 0 included; a blob
\* that is not nil never gets an error, so that the error tells the nil blob
\* from the (false, nil) of a blob that does not match.
C31_NilBlobIsAnError ==
    /\ (src = "filled" /\ blob = NilBlob) => fillErr = "nil blob"
    /\ (src = "filled" /\ blob # NilBlob) => fillErr = Nil
    /\ (phase = "verified" /\ blob = NilBlob) =>
          /\ ~verifyRes.ok
          /\ verifyRes.err = "nil blob"
          /\ verifyRes.err # Nil
    /\ (phase = "verified" /\ blob # NilBlob) => verifyRes.err = Nil

\* VerifyBlob of the reserved id 0 was called with the nil blob FillBlob had
\* refused before
C31_Witness ==
    /\ phase = "verified"
    /\ src = "filled"
    /\ blob = NilBlob
    /\ fillErr = "nil blob"
    /\ verifyId = 0
    /\ verifyRes = [ok |-> FALSE, err |-> "nil blob"]

-----------------------------------------------------------------------------
(* SpecText *)

\* the variables of the specifications up to SpecTx at their idle value
IdleBase ==
    /\ IdleBlob /\ IdleCommit /\ IdleSha /\ IdleSteps /\ IdleCtx /\ IdleVer
    /\ IdleList /\ IdleFork /\ IdlePayload /\ IdleTx

InitSpecText == InitText /\ IdleBase /\ IdleHash /\ IdleClients

SpecText == InitSpecText /\ [][NextText]_vars

\* C32: decoding the text MarshalText wrote for a blob succeeds and gives
\* the target the bytes of that blob, whatever the target held before.
C32_TextRoundTrip ==
    (tOp = "decoded" /\ tKind = "marshalled" /\ tOld # NilBlob) =>
        /\ tErr = NoError
        /\ tBlob = tSrc

\* a blob of mixed bytes was decoded from its text into a target that held
\* other bytes
C32_Witness ==
    /\ tOp = "decoded"
    /\ tKind = "marshalled"
    /\ tErr = NoError
    /\ tOld # NilBlob
    /\ tOld # tSrc
    /\ tBlob = tSrc
    /\ \E i, j \in 1..BlobLen : tSrc[i] # tSrc[j]

\* the length UnmarshalText accepts
TextLen == 2 + (FieldElementsPerBlob * 32 * 2)

\* C33: UnmarshalText returns an error for every text whose length is not
\* 2 + 2 * FieldElementsPerBlob * 32 and for every text that does not start
\* with "0x", and in both cases the bytes of the target are what they were.
C33_LengthAndPrefix ==
    (tOp = "decoded" /\ (Len(tText) # TextLen \/ SubSeq(tText, 1, 2) # << 48, 120 >>)) =>
        /\ tErr # NoError
        /\ tBlob = tOld

\* a text of the right length without the prefix, and whose digits are not
\* the ones of the target, was refused
C33_Witness ==
    /\ tOp = "decoded"
    /\ tOld # NilBlob
    /\ Len(tText) = TextLen
    /\ tText[1] = 48 /\ tText[2] # 120
    /\ tSrc # tOld
    /\ tErr = Errorf("expected '0x' prefix in Blob string", << >>)
    /\ tBlob = tOld

-----------------------------------------------------------------------------
(* the BlobIDs of the transactions of parallel senders (Spec) *)

\* the BlobIDs transaction tx is built from
BlobRange(tx) == tx.blobId..(tx.blobId + tx.blobCount - 1)

\* C34: no two transactions the senders created are built from overlapping
\* BlobID ranges, also when the senders are siblings of one ParallelSteps:
\* no sender holds a BlobID it read from CurrentBlobID that another sender
\* has read and not yet advanced past.
C34_DisjointBlobRanges ==
    /\ \A tx1, tx2 \in node.sent :
          tx1 # tx2 => BlobRange(tx1) \cap BlobRange(tx2) = {}
    /\ \A g, h \in Goroutines :
          (g # h /\ gpc[g] \in {"send", "verify", "lock", "add", "index", "blobid"}
                 /\ gpc[h] \in {"send", "verify", "lock", "add", "index", "blobid"})
              => gloc[g].blobID # gloc[h].blobID

-----------------------------------------------------------------------------
(* SpecHash *)

InitSpecHash ==
    /\ InitHash
    /\ IdleBlob /\ IdleSteps /\ IdleCtx /\ IdleVer
    /\ IdleList /\ IdleFork /\ IdlePayload /\ IdleTx /\ IdleText /\ IdleClients

SpecHash == InitSpecHash /\ [][NextHash]_vars

\* C35: VersionedHashes() returns, for a non-nil Blobs list, one hash per
\* listed BlobID in list order; hash i is the digest of the commitment of
\* the synthesized blob Blobs[i] with its leading byte replaced by
\* HashVersions[i] when that entry is given and by the version constant
\* 0x01 otherwise; so without HashVersions the list equals the one derived
\* from the bundle of the same blobs.
C35_OverrideHashes ==
    (hOp = "override" /\ ~hIn.Blobs.nil /\ hOut.err = NoError) =>
        LET ids == hIn.Blobs.elems
            hashes == hOut.hashes.elems
        IN /\ Len(hashes) = Len(ids)
           /\ \A i \in 1..Len(ids) :
                 LET digest == sha256(kzgCommit[SynthBlob(ids[i])].val)
                 IN /\ SubSeq(hashes[i], 2, 32) = SubSeq(digest, 2, 32)
                    /\ hashes[i][1] =
                          IF ~hIn.HashVersions.nil /\ Len(hIn.HashVersions.elems) >= i
                          THEN hIn.HashVersions.elems[i]
                          ELSE BlobCommitmentVersionKZG
           /\ (hIn.HashVersions.nil /\ hBundle.err = NoError) =>
                 hashes = hBundle.hashes.elems

\* C37: the derivations of a versioned hash agree: for every commitment c,
\* ComputeVersionedHash(c), the entry BlobsBundle.VersionedHashes(0x01)
\* computes for c, and the hash ComputeCommitmentsAndProofs returns for the
\* blob committing to c are equal; and for every BlobID id,
\* id.GetVersionedHash(0x01) is the hash BlobDataGenerator(id, 1) returns
\* for the transaction.
C37_DerivationsAgree ==
    hOp = "derived" =>
        LET c == SampleCommitment(hDer.id)
        IN /\ hDer.compute[1] = BlobCommitmentVersionKZG
           /\ SubSeq(hDer.compute, 2, 32) = SubSeq(sha256(c), 2, 32)
           /\ hDer.bundle.err = NoError
           /\ hDer.bundle.hashes.elems = << hDer.compute >>
           /\ hDer.ccp.err = NoError =>
                 /\ hDer.ccp.commitments.elems = << c >>
                 /\ hDer.ccp.versionedHashes.elems = << hDer.compute >>
           /\ hDer.get.err = NoError => hDer.get.hash = hDer.compute
           /\ (hDer.get.err = NoError /\ hDer.gen.err = NoError) =>
                 hDer.gen.hashes.elems = << hDer.get.hash >>

\* every derivation succeeded for a BlobID whose commitment has a digest
\* that does not start with the version byte
C37_Witness ==
    /\ hOp = "derived"
    /\ hDer.ccp.err = NoError
    /\ hDer.get.err = NoError
    /\ hDer.gen.err = NoError
    /\ sha256(SampleCommitment(hDer.id))[1] # BlobCommitmentVersionKZG
    /\ hDer.gen.hashes.elems = << hDer.compute >>

-----------------------------------------------------------------------------
(* SpecLive: ParallelSteps.Execute under the scheduler of the runtime,      *)
(* which runs a goroutine that can take a step: the composite does not      *)
(* stay forever in a state in which some step of it is possible.            *)

\* the sub-step passes the checks of its client and of its account
PassesChecks(step) ==
    /\ step.kind = "send"
    /\ step.ClientIndex < NumEngines
    /\ step.AccountIndex < NumTestAccounts

\* the composites with at most one sender that reaches the pool, next to
\* failing senders and NewPayloads steps
InitLive ==
    /\ Init
    /\ \A i, j \in 1..Len(steps) :
          (PassesChecks(steps[i]) /\ PassesChecks(steps[j])) => i = j

SpecLive == InitLive /\ [][Next]_vars /\ WF_vars(Next)

\* C36: ParallelSteps.Execute starts the Execute of every listed sub-step
\* exactly once, no sub-step finds the error channel full, with an empty
\* list it returns nil, and it returns in every run, also when all sub-steps
\* fail.
C36_ParallelTerminates ==
    /\ [][ \A g \in Goroutines :
              /\ (gpc'[g] = "start" /\ gpc[g] # "start") =>
                    (gpc[g] = "unborn" /\ g = launched + 1 /\ launched' = g)
              /\ gpc[g] # "unborn" => gpc'[g] # "unborn" ]_vars
    /\ [](/\ Len(errs) <= ErrsCapacity
          /\ launched <= Len(steps)
          /\ mainPc = "returned" =>
                /\ launched = Len(steps)
                /\ \A g \in Goroutines : gpc[g] = "done"
                /\ Len(steps) = 0 => result = NoError)
    /\ <>(mainPc = "returned")

\* the composite returned although both of its sub-steps failed: one error
\* was returned, the other is left in the channel
C36_Witness ==
    /\ mainPc = "returned"
    /\ Len(steps) = 2
    /\ \A g \in Goroutines : gout[g] = "error" /\ gpc[g] = "done"
    /\ result # NoError
    /\ Len(errs) = 1

-----------------------------------------------------------------------------
(* the cycles and the delay of a NewPayloads step (SpecPayload) *)

\* C38: a NewPayloads step runs GetPayloadCount() block-production cycles
\* (1 when PayloadCount is 0), one after the other, and when it returns the
\* payload-production delay of the CL mock is what it was before the step:
\* it is overridden only while the step runs and only when GetPayloadDelay
\* is not 0.
C38_CyclesAndDelay ==
    LET count == IF npStep.PayloadCount = 0 THEN 1 ELSE npStep.PayloadCount
    IN /\ npPc = "done" =>
             /\ npP = count
             /\ Len(built) = 1 + count
             /\ payloadDelay = delayBefore
       /\ npPc \in {"onGetPayload", "onNewPayload", "onForkchoice"} =>
             /\ npP < count
             /\ Len(built) = npP + 2
       /\ npPc = "loop" => Len(built) = npP + 1
       /\ npPc = "start" => payloadDelay = delayBefore
       /\ (npPc # "idle" /\ npStep.GetPayloadDelay = 0) => payloadDelay = delayBefore
       /\ payloadDelay # delayBefore =>
             /\ npPc \in {"loop", "onGetPayload", "onNewPayload", "onForkchoice", "failed"}
             /\ payloadDelay = npStep.GetPayloadDelay

\* a step of MaxPayloads cycles that had overridden a delay of 1 second has
\* returned
C38_Witness ==
    /\ npPc = "done"
    /\ npStep.PayloadCount = MaxPayloads
    /\ npStep.GetPayloadDelay = 2
    /\ delayBefore = 1
    /\ payloadDelay = 1
    /\ Len(built) = 1 + MaxPayloads

-----------------------------------------------------------------------------
(* SpecClients: a TestSequence of LaunchClients, SendBlobTransactions,      *)
(* NewPayloads and SendModifiedLatestPayload steps, run by the executor of  *)
(* SpecSeq                                                                  *)

\* the steps of the sequence: senders and modified payloads for client 0 and
\* for the first index after the clients of the setup, launches of one and
\* of MaxClientCount clients, a NewPayloads step of one payload
ClientStepChoices ==
    { StepDesc("send", 1, 0, 0, 0, FALSE),
      StepDesc("send", 1, 0, 0, NumEngines, FALSE),
      StepDesc("payload", 1, 0, 0, 0, FALSE),
      LaunchDesc(0, FALSE, FALSE),
      LaunchDesc(MaxClientCount, TRUE, TRUE),
      ModifiedDesc(NumEngines, NilPointer),
      ModifiedDesc(NumEngines, PointerTo(NoOverride)),
      ModifiedDesc(0, PointerTo([Blobs |-> List(<< 0 >>), HashVersions |-> List(<< 1 >>)])) }

ClientStepLists(n) ==
    { l \in UNION { [1..k -> ClientStepChoices] : k \in 0..n } :
        \A i, j \in 1..Len(l) : i # j => l[i] # l[j] }

InitClients ==
    /\ sha = SampleSha
    /\ \E commitFails \in {{}, {0}} :
          kzgCommit = [b \in { SynthBlob(k) : k \in BlobIDs } |->
                          LET k == CHOOSE k \in BlobIDs : SynthBlob(k) = b
                          IN IF k \in commitFails THEN KzgFailure
                             ELSE KzgValue(SampleCommitment(k))]
    /\ kzgProof = [b \in { SynthBlob(k) : k \in BlobIDs } |->
                      LET k == CHOOSE k \in BlobIDs : SynthBlob(k) = b
                      IN KzgValue(SampleProof(k))]
    /\ cOp = "idle"
    /\ vhIn = << >>
    /\ vhOut = << >>
    /\ ccpIn = << >>
    /\ ccpOut = NoCCP
    /\ genIn = << 0, 0 >>
    /\ genOut = NoGen
    /\ steps \in ClientStepLists(MaxSteps)
    /\ mainPc = "seq"
    /\ launched = 0
    /\ wg = 0
    /\ errs = << >>
    /\ errsClosed = FALSE
    /\ result = NoError
    /\ gpc = [g \in 1..Len(steps) |-> "unborn"]
    /\ gloc = [g \in 1..Len(steps) |-> NoLocals]
    /\ gout = [g \in 1..Len(steps) |-> "running"]
    /\ pool = [Transactions |-> << >>, HashesByIndex |-> << >>,
               CurrentTransactionIndex |-> 0, CurrentBlobID |-> 0]
    /\ mutex = 0
    /\ node = [sent |-> {}, nonce |-> [a \in 0..(NumTestAccounts - 1) |-> 0]]

InitSpecClients ==
    /\ InitClients
    /\ IdleBlob /\ IdleCtx /\ IdleVer
    /\ IdleList /\ IdleFork /\ IdlePayload /\ IdleTx /\ IdleText /\ IdleHash /\ IdleClients

NextClients ==
    \/ SeqLaunch
    \/ SeqCollect
    \/ SeqEnd
    \/ \E g \in Goroutines : SendStart(g)
    \/ \E g \in Goroutines : SendCreate(g)
    \/ \E g \in Goroutines : SendTransaction(g)
    \/ \E g \in Goroutines : VerifyFromNode(g)
    \/ \E g \in Goroutines : Lock(g)
    \/ \E g \in Goroutines : Add(g)
    \/ \E g \in Goroutines : Index(g)
    \/ \E g \in Goroutines : AdvanceBlobID(g)
    \/ \E g \in Goroutines : Unlock(g)
    \/ \E g \in Goroutines : PayloadStart(g)
    \/ \E g \in Goroutines : ProducePayload(g)
    \/ \E g \in Goroutines : OnGetPayload(g)
    \/ \E g \in Goroutines : OnNewPayloadBroadcast(g)
    \/ \E g \in Goroutines : OnForkchoiceBroadcast(g)
    \/ \E g \in Goroutines : LaunchClientsStart(g)
    \/ \E g \in Goroutines : LaunchClient(g)
    \/ \E g \in Goroutines : SendModifiedLatestPayload(g)

SpecClients == InitSpecClients /\ [][NextClients]_vars

\* the step takes the check of its client index in this step of the run
ChecksClient(g) == gpc[g] = "start" /\ gpc'[g] # "start"

\* nothing was sent and the pool, its counters and the clients are as before
NothingSent ==
    /\ node' = node
    /\ delivered' = delivered
    /\ pool' = pool
    /\ engines' = engines
    /\ testEngines' = testEngines
    /\ clMock' = clMock

\* C39: SendBlobTransactions with a ClientIndex that is not the index of a
\* launched client, and SendModifiedLatestPayload with such a ClientID,
\* return an error without sending anything and leave the pool,
\* CurrentBlobID, CurrentTransactionIndex and the list of clients unchanged;
\* SendModifiedLatestPayload never starts a block-production cycle and never
\* changes the pool.
C39_InvalidClient ==
    [][\A g \in Goroutines :
          /\ (ChecksClient(g) /\ steps[g].kind = "send"
                 /\ steps[g].ClientIndex >= Len(engines)) =>
                gout'[g] = "error" /\ NothingSent
          /\ (ChecksClient(g) /\ steps[g].kind = "modified"
                 /\ steps[g].ClientID >= Len(testEngines)) =>
                gout'[g] = "error" /\ NothingSent
          /\ (steps[g].kind = "modified" /\ gpc'[g] # gpc[g]) =>
                /\ pool' = pool
                /\ gloc' = gloc
                /\ gpc'[g] \notin {"produce", "onGetPayload", "onNewPayload",
                                  "onForkchoice"}
                /\ UNCHANGED payVars ]_vars

\* the same without the steps whose VersionedHashes is nil
C39_InvalidClientWithHashes ==
    [][\A g \in Goroutines :
          /\ (ChecksClient(g) /\ steps[g].kind = "send"
                 /\ steps[g].ClientIndex >= Len(engines)) =>
                gout'[g] = "error" /\ NothingSent
          /\ (ChecksClient(g) /\ steps[g].kind = "modified"
                 /\ ~steps[g].VersionedHashes.nil
                 /\ steps[g].ClientID >= Len(testEngines)) =>
                gout'[g] = "error" /\ NothingSent
          /\ (steps[g].kind = "modified" /\ gpc'[g] # gpc[g]) =>
                /\ pool' = pool
                /\ gloc' = gloc
                /\ gpc'[g] \notin {"produce", "onGetPayload", "onNewPayload",
                                  "onForkchoice"}
                /\ UNCHANGED payVars ]_vars

\* a step with an invalid client returned its error after an earlier step
\* had filled the pool
C39_Witness ==
    /\ Len(steps) = 2
    /\ steps[1].kind = "send"
    /\ steps[2] = ModifiedDesc(NumEngines, PointerTo(NoOverride))
    /\ gout[1] = "nil"
    /\ gout[2] = "error"
    /\ pool.CurrentTransactionIndex = 1
    /\ delivered = << >>

\* the clients step g appended to t.Engines
AddedBy(g) == { i \in 1..Len(engines) : origin[engines[i]] = g }

\* C40: after any sequence of LaunchClients steps, successful or failing
\* part-way, t.Engines and t.TestEngines have the same length and index i of
\* both refers to the same client; a successful step adds exactly
\* GetClientCount() clients (1 when ClientCount is 0); a launched client is
\* registered with the CL mock if and only if SkipAddingToCLMock is false.
C40_ClientLists ==
    /\ Len(engines) = Len(testEngines)
    /\ \A i \in 1..Len(engines) :
          /\ testEngines[i].Engine = engines[i]
          /\ \A j \in 1..Len(engines) : i # j => engines[i] # engines[j]
          /\ origin[engines[i]] # 0 =>
                (engines[i] \in clMock <=> ~steps[origin[engines[i]]].SkipAddingToCLMock)
    /\ \A g \in Goroutines :
          steps[g].kind = "launch" =>
             LET count == IF steps[g].ClientCount = 0 THEN 1 ELSE steps[g].ClientCount
             IN /\ gout[g] = "nil" => Cardinality(AddedBy(g)) = count
                /\ gout[g] = "error" => Cardinality(AddedBy(g)) < count
                /\ gpc[g] = "unborn" => AddedBy(g) = {}
                /\ gpc[g] = "launch" => Cardinality(AddedBy(g)) = lcI

\* two LaunchClients steps have run: the first added one client known to
\* the CL mock, the second failed after its first client, which the CL mock
\* does not know
C40_Witness ==
    /\ Len(steps) = 2
    /\ steps[1] = LaunchDesc(0, FALSE, FALSE)
    /\ steps[2] = LaunchDesc(MaxClientCount, TRUE, TRUE)
    /\ gout[1] = "nil"
    /\ gout[2] = "error"
    /\ Len(engines) = NumEngines + 2
    /\ engines[NumEngines + 1] \in clMock
    /\ engines[NumEngines + 2] \notin clMock

====
